---- MODULE Spec2Model ----
(***************************************************************************)
(* Per-instrument trading state machine (gmanojisaac/part3Final).          *)
(*                                                                         *)
(* Spec   : the three-state SymbolMachine of src/unnamed/part_002 driving  *)
(*          the instant-fill paper broker of src/server/fyersClient.ts.    *)
(* SpecB  : the SymbolMachine variant with BUY-timeout re-entry,           *)
(*          src/server/stateMachine.ts lines 443-915, on the same broker.  *)
(*                                                                         *)
(* SpecPaper : the pending-order PaperBroker of src/unnamed/part_008,       *)
(*          driven directly through its exported entry points.             *)
(*                                                                         *)
(* Prices are integers in units of 0.005 (200 units = 1.00), so that       *)
(* roundPrice (two decimals) is not the identity.  Time is in ms.          *)
(* One symbol, one machine.                                                *)
(***************************************************************************)
EXTENDS Integers, Sequences, FiniteSets, TLC

VARIABLES
  now,                \* Date.now()
  marketOpen,         \* what isMarketOpenNow() returns
  ltp,                \* tick hub: last cached price of the symbol (Null: none)
  handlers,           \* tick hub: subscribed handlers, in subscription order
  timers,             \* pending setTimeout callbacks, in creation order
  state,              \* SymbolMachine.state
  sellWindowTimer,    \* SymbolMachine.sellWindowTimer (handle or NoTimer)
  buyWindowTimer,     \* SymbolMachine.buyWindowTimer  (handle or NoTimer)
  sellInPosExitDone,  \* SymbolMachine.sellInPosExitDone
  hadPositionOnSell,  \* SymbolMachine.hadPositionOnSell
  buyWindowActive,    \* SymbolMachine.buyWindowActive
  buySilenceUntil,    \* SymbolMachine.buySilenceUntil (Null or a time)
  sellLtpAnchor,      \* ANCHOR[sym].sellLtpAnchor
  savedBUYLTP,        \* ANCHOR[sym].savedBUYLTP
  savedLastBUYLTP,    \* ANCHOR[sym].savedLastBUYLTP
  pendingBuyAfterSell,\* ANCHOR[sym].pendingBuyAfterSell
  posQty,             \* POSITIONS[sym].posQty
  avgPrice,           \* POSITIONS[sym].avgPrice
  PAPER_ORDER_ID,     \* next paper order id
  \* ---- history variables (observations, never read by the program) ----
  event,              \* kind of the last event
  orders,             \* orders placed by the last event, in order
  started,            \* windows started by the last event, in order
  windowSells,        \* tick-rule SELL orders since the latest window start
  buyWindowEnd,       \* deadline of the latest BUY window started
  stopDeadline,       \* deadline of the BUY window that last stopped out
  flatSellLoop,       \* a flat SELL signal stood aside, no signal/trigger since
  windowTimer,        \* the expiry timer armed by the latest window started
  staleFired,         \* the last event fired the timer of a superseded window
  thrown,             \* the last event ended with an exception
  ssa,                \* the fields the Sell-Start anchor variant adds
  underlying,         \* SymbolMachine.sym: the underlying getLotSize is asked for
  \* ---- pending-order PaperBroker, src/unnamed/part_008 ----
  quoteCache,         \* quoteCache: symbol -> last price (Null: none)
  paperSeq,           \* PaperBroker.seq
  paperOrders,        \* PaperBroker.orders, in insertion order
  paperPositions,     \* PaperBroker.positions: symbol -> [qty, avgPrice]
  realizedBySymbol,   \* PaperBroker.realizedBySymbol
  paperEvent,         \* history: kind of the last broker event
  \* ---- tick-cross paper engine, src/unnamed/part_005 ----
  LAST_TICK,          \* LAST_TICK: symbol -> last price (Null: none)
  ORDERS,             \* ORDERS, in insertion order
  orderSeq,           \* orderSeq
  POS,                \* POS: symbol -> [posQty, avgPrice, realized]
  fills,              \* history: fills made by the last engine event
  engineEvent,        \* history: the last engine event and its result
  \* ---- position and trade log of src/server/fyersClient.ts ----
  POSITIONS,          \* POSITIONS[sym]: [posQty, avgPrice, realized]
  TRADES,             \* TRADES, in insertion order
  \* ---- one call of computeQtyFromPnLContext ----
  sizingIn,           \* its inputs: underlying, open quantity, last price
  sizingOut,          \* what it returned (Null: not called, or it threw)
  \* ---- one call of isMarketOpen and of marketClock ----
  clockIn,            \* what the calls read: IST weekday and time, holiday,
                      \* FORCE_MARKET_OPEN, FORCE_MARKET_CLOSED
  clockOut,           \* what they returned
  \* ---- one call of mergeTicksAndSignals ----
  mergeIn,            \* its arguments: historyTicks, signals
  mergeOut,           \* what it returned
  \* ---- DataSocket, src/server/dataSocket.ts ----
  subscriptions,      \* DataSocket.subscriptions: symbol -> refcount (0: absent)
  connected,          \* DataSocket.connected
  tickListeners,      \* listeners of the "tick" event, in registration order
  unsubscribers,      \* the unsubscribe functions subscribe has returned
  delivered,          \* history: what each listener read during the last tick
  socketEvent,        \* history: the last DataSocket event
  \* ---- legacy TradeStateMachine, src/stateMachine.ts ----
  tsm,                \* the TradeStateMachine instance: its fields
  tsmNow,             \* Date.now()
  tsmTimers,          \* pending setTimeout callbacks, in creation order
  tsmEvent,           \* history: the last event and what it met; whether a
                      \* SELL signal was handled since the last BUY signal;
                      \* when the latest entry order was placed
  PAPERTRADE,         \* process.env.PAPERTRADE is "true"
  fyersClient         \* the module "./fyersClient" resolves to

vars == << now, marketOpen, ltp, handlers, timers, state, sellWindowTimer,
           buyWindowTimer, sellInPosExitDone, hadPositionOnSell,
           buyWindowActive, buySilenceUntil, sellLtpAnchor, savedBUYLTP,
           savedLastBUYLTP, pendingBuyAfterSell, posQty, avgPrice,
           PAPER_ORDER_ID, event, orders, started, windowSells,
           buyWindowEnd, stopDeadline, flatSellLoop, windowTimer,
           staleFired, thrown, ssa, underlying, quoteCache, paperSeq, paperOrders, paperPositions,
           realizedBySymbol, paperEvent, LAST_TICK, ORDERS, orderSeq, POS,
           fills, engineEvent, POSITIONS, TRADES, sizingIn, sizingOut,
           clockIn, clockOut, mergeIn, mergeOut,
           subscriptions, connected, tickListeners, unsubscribers,
           delivered, socketEvent, tsm, tsmNow, tsmTimers, tsmEvent,
           PAPERTRADE, fyersClient >>

machineVars == << now, marketOpen, ltp, handlers, timers, state,
                  sellWindowTimer, buyWindowTimer, sellInPosExitDone,
                  hadPositionOnSell, buyWindowActive, buySilenceUntil,
                  sellLtpAnchor, savedBUYLTP, savedLastBUYLTP,
                  pendingBuyAfterSell, posQty, avgPrice, PAPER_ORDER_ID,
                  event, orders, started, windowSells, buyWindowEnd,
                  stopDeadline, flatSellLoop, windowTimer, staleFired,
                  thrown, ssa, underlying >>

paperVars == << quoteCache, paperSeq, paperOrders, paperPositions,
                realizedBySymbol, paperEvent >>

engineVars == << LAST_TICK, ORDERS, orderSeq, POS, fills, engineEvent >>

ledgerVars == << POSITIONS, TRADES >>

sizingVars == << sizingIn, sizingOut, clockIn, clockOut, mergeIn, mergeOut >>

socketVars == << subscriptions, connected, tickListeners, unsubscribers,
                 delivered, socketEvent >>

legacyVars == << tsm, tsmNow, tsmTimers, tsmEvent, PAPERTRADE, fyersClient >>

-----------------------------------------------------------------------------
(* Bounds of the model *)
MaxTime == 120000
MaxHandlers == 3
MaxOrders == 4
MaxTimers == 3
MaxPaperOrders == 2
MaxEngineOrders == 2
MaxTrades == 3
MaxSubscribes == 3
MaxUnsubscribeCalls == 2
MaxLegacyTime == 120000
MaxLegacyOrders == 3
MaxLegacyTimers == 3
MaxAnchorHandlers == 4
MaxWindowIdx == 4
MaxStack == 2
MaxMergeTicks == 2
MaxMergeSignals == 2

(* Program constants *)
WindowMs == 60000
CAPITAL == 20000
LotSize == 75
BankNiftyLotSize == 35
DefaultPx == 100
BrokeragePerMille == 2
ENTRY_TTL_MS == 15000
ORDER_VALUE == 100000
UnitsPerRupee == 200
Half == UnitsPerRupee \div 2
Null == 0 - 1

BuySigPrices == {2000}
SellSigPrices == {2000, 2101}
TickPrices == {1899, 2000, 2101}
ForcedAnchors == {Null, 2101}
PaperSymbols == {"NIFTY", "BANKNIFTY"}
PaperQtys == {1, 2}
PaperLimits == {1996, 2010}
PaperTicks == {2000, 2010}
LegacySymbol == "NIFTY"
LegacySigPrices == {2000}
LegacyTicks == {1897, 2000, 2104}
LegacyTimeSteps == {ENTRY_TTL_MS, WindowMs}
Underlyings == {"NIFTY", "BANKNIFTY", "SENSEX"}
SizingQtys == {0 - 150, 0 - 75, 0, 75, 150}
SizingLtps == {Null, 0, 2000, 20000, 26666, 26667, 60000}
NoSizing == [underlying |-> "NIFTY", posQty |-> 0, ltp |-> Null]
ClockWeekdays == {"Mon", "Fri", "Sat", "Sun"}
ClockHours == {9, 15}
ClockMinutes == {14, 15, 30, 31}
NoClock == [wd |-> "Mon", holiday |-> FALSE, hh |-> 0, mm |-> 0,
            forceOpen |-> FALSE, forceClosed |-> FALSE]
NoClockOut == [called |-> FALSE]
MergeTimes == {1, 2}
MergeSymbols == {"NIFTY", "BANKNIFTY"}
NoMerge == [historyTicks |-> << >>, signals |-> << >>]
NoMergeOut == [called |-> FALSE]
LedgerQtys == {LotSize, 2 * LotSize}
LedgerPrices == {2000, 2100}
EngineLimits == {2000}
EngineTicks == {1960, 2000, 2020}
TimeSteps == {WindowMs \div 2, WindowMs}
AnchorEvents == {"ADVANCE_A", "TIMER_A", "TICK_A", "SELL_SIGNAL_A",
                 "BUY_SIGNAL_A"}

NoTimer == [kind |-> "NONE", due |-> Null, anchor |-> Null]

Min(a, b) == IF a <= b THEN a ELSE b

RemoveFirst(seq, x) ==
  IF \E i \in 1..Len(seq) : seq[i] = x
  THEN LET i == CHOOSE k \in 1..Len(seq) :
                  seq[k] = x /\ \A j \in 1..(k - 1) : seq[j] # x
       IN SubSeq(seq, 1, i - 1) \o SubSeq(seq, i + 1, Len(seq))
  ELSE seq

-----------------------------------------------------------------------------
(* The state as one record, so that a handler is a function S -> S *)
Cur ==
  [ now |-> now, marketOpen |-> marketOpen, ltp |-> ltp,
    handlers |-> handlers, timers |-> timers, state |-> state,
    sellWindowTimer |-> sellWindowTimer, buyWindowTimer |-> buyWindowTimer,
    sellInPosExitDone |-> sellInPosExitDone,
    hadPositionOnSell |-> hadPositionOnSell,
    buyWindowActive |-> buyWindowActive, buySilenceUntil |-> buySilenceUntil,
    sellLtpAnchor |-> sellLtpAnchor, savedBUYLTP |-> savedBUYLTP,
    savedLastBUYLTP |-> savedLastBUYLTP,
    pendingBuyAfterSell |-> pendingBuyAfterSell,
    posQty |-> posQty, avgPrice |-> avgPrice,
    PAPER_ORDER_ID |-> PAPER_ORDER_ID,
    event |-> event, orders |-> orders, started |-> started,
    windowSells |-> windowSells, buyWindowEnd |-> buyWindowEnd,
    stopDeadline |-> stopDeadline, flatSellLoop |-> flatSellLoop,
    windowTimer |-> windowTimer, staleFired |-> staleFired,
    thrown |-> thrown, ssa |-> ssa, underlying |-> underlying ]

Commit(S) ==
  /\ now' = S.now
  /\ marketOpen' = S.marketOpen
  /\ ltp' = S.ltp
  /\ handlers' = S.handlers
  /\ timers' = S.timers
  /\ state' = S.state
  /\ sellWindowTimer' = S.sellWindowTimer
  /\ buyWindowTimer' = S.buyWindowTimer
  /\ sellInPosExitDone' = S.sellInPosExitDone
  /\ hadPositionOnSell' = S.hadPositionOnSell
  /\ buyWindowActive' = S.buyWindowActive
  /\ buySilenceUntil' = S.buySilenceUntil
  /\ sellLtpAnchor' = S.sellLtpAnchor
  /\ savedBUYLTP' = S.savedBUYLTP
  /\ savedLastBUYLTP' = S.savedLastBUYLTP
  /\ pendingBuyAfterSell' = S.pendingBuyAfterSell
  /\ posQty' = S.posQty
  /\ avgPrice' = S.avgPrice
  /\ PAPER_ORDER_ID' = S.PAPER_ORDER_ID
  /\ event' = S.event
  /\ orders' = S.orders
  /\ started' = S.started
  /\ windowSells' = S.windowSells
  /\ buyWindowEnd' = S.buyWindowEnd
  /\ stopDeadline' = S.stopDeadline
  /\ flatSellLoop' = S.flatSellLoop
  /\ windowTimer' = S.windowTimer
  /\ staleFired' = S.staleFired
  /\ thrown' = S.thrown
  /\ ssa' = S.ssa
  /\ underlying' = S.underlying
  /\ UNCHANGED << paperVars, engineVars, ledgerVars, sizingVars,
                  socketVars, legacyVars >>
  /\ Len(S.handlers) <= (IF S.event \in AnchorEvents THEN MaxAnchorHandlers
                         ELSE MaxHandlers)
  /\ S.ssa.buyWindowIdxSinceSell <= MaxWindowIdx
  /\ Len(S.timers) <= MaxTimers
  /\ S.PAPER_ORDER_ID <= MaxOrders + 1

(* The state at the start of an event of kind e *)
Begin(e) ==
  [Cur EXCEPT !.event = e, !.orders = << >>, !.started = << >>,
              !.staleFired = FALSE, !.thrown = FALSE]

-----------------------------------------------------------------------------
(* Paper broker, src/server/fyersClient.ts *)

roundPrice(x) == ((x + 1) \div 2) * 2

getOpenQty(S) == S.posQty

Abs(x) == IF x < 0 THEN 0 - x ELSE x

nowLtp(S) == S.ltp

(* src/server/lotSize.ts; Null stands for the Error getLotSize throws *)
LOT_SIZES == [NIFTY |-> LotSize, BANKNIFTY |-> BankNiftyLotSize]

getLotSize(u) == IF u \in DOMAIN LOT_SIZES THEN LOT_SIZES[u] ELSE Null

(* computeQtyFromPnLContext that does not raise the lots to 1 *)
computeQtyFromPnLContext_NoMinimum(S) ==
  LET open == Abs(getOpenQty(S))
      lotSize == getLotSize(S.underlying)
      l    == nowLtp(S)
      px   == IF l # Null /\ l > 0 THEN l ELSE DefaultPx * UnitsPerRupee
      costPerLot == px * lotSize
      lots == (CAPITAL * UnitsPerRupee) \div costPerLot
  IN IF open > 0 THEN open
     ELSE IF lotSize = Null THEN Null
     ELSE IF costPerLot <= 0 THEN lotSize
     ELSE lots * lotSize

(* Null stands for the Error of getLotSize passing through *)
computeQtyFromPnLContext(S) ==
  LET open == Abs(getOpenQty(S))
      lotSize == getLotSize(S.underlying)
      l    == nowLtp(S)
      px   == IF l # Null /\ l > 0 THEN l ELSE DefaultPx * UnitsPerRupee
      costPerLot == px * lotSize
      lots0 == (CAPITAL * UnitsPerRupee) \div costPerLot
      lots  == IF lots0 < 1 THEN 1 ELSE lots0
  IN IF open > 0 THEN open
     ELSE IF lotSize = Null THEN Null
     ELSE IF costPerLot <= 0 THEN lotSize
     ELSE lots * lotSize

applyBuyToPosition(S, qty, price) ==
  LET oldQty == S.posQty
      oldAvg == S.avgPrice
      newQty == oldQty + qty
      closingQty == Min(qty, 0 - oldQty)
      remainingQty == oldQty + closingQty
  IN IF oldQty >= 0
     THEN IF newQty = 0
          THEN [S EXCEPT !.posQty = 0, !.avgPrice = 0]
          ELSE [S EXCEPT !.posQty = newQty,
                         !.avgPrice = (oldQty * oldAvg + qty * price) \div newQty]
     ELSE IF remainingQty = 0
          THEN [S EXCEPT !.posQty = 0, !.avgPrice = 0]
          ELSE IF remainingQty < 0
          THEN [S EXCEPT !.posQty = remainingQty, !.avgPrice = oldAvg]
          ELSE [S EXCEPT !.posQty = remainingQty, !.avgPrice = price]

(* applySellToPosition keeping the old average when the position closes *)
applySellToPosition_KeepAvg(S, qty, price) ==
  LET oldQty == S.posQty
      oldAvg == S.avgPrice
      newQty == oldQty - qty
  IN [S EXCEPT !.posQty = newQty, !.avgPrice = oldAvg]

applySellToPosition(S, qty, price) ==
  LET oldQty == S.posQty
      oldAvg == S.avgPrice
      newQty == oldQty - qty
      closingQty == Min(qty, oldQty)
      remainingQty == oldQty - closingQty
  IN IF oldQty <= 0
     THEN IF newQty = 0
          THEN [S EXCEPT !.posQty = 0, !.avgPrice = 0]
          ELSE [S EXCEPT !.posQty = newQty,
                         !.avgPrice = (oldQty * oldAvg - qty * price) \div newQty]
     ELSE IF remainingQty = 0
          THEN [S EXCEPT !.posQty = 0, !.avgPrice = 0]
          ELSE IF remainingQty > 0
          THEN [S EXCEPT !.posQty = remainingQty, !.avgPrice = oldAvg]
          ELSE [S EXCEPT !.posQty = remainingQty, !.avgPrice = price]

Order(S, side, qty, price, tag) ==
  [side |-> side, qty |-> qty, price |-> price, tag |-> tag,
   openQty |-> getOpenQty(S)]

(* placeLimitBuy leaving the order pending: the position is not touched *)
placeLimitBuy_Pending(S, qty, limitPrice, tag) ==
  [S EXCEPT !.PAPER_ORDER_ID = @ + 1,
            !.orders = Append(@, Order(S, "BUY", qty, limitPrice, tag))]

placeLimitBuy(S, qty, limitPrice, tag) ==
  LET S1 == [S EXCEPT !.PAPER_ORDER_ID = @ + 1,
                      !.orders = Append(@, Order(S, "BUY", qty, limitPrice, tag))]
  IN applyBuyToPosition(S1, qty, limitPrice)

placeLimitSell(S, qty, limitPrice, tag) ==
  LET S1 == [S EXCEPT !.PAPER_ORDER_ID = @ + 1,
                      !.orders = Append(@, Order(S, "SELL", qty, limitPrice, tag))]
  IN applySellToPosition(S1, qty, limitPrice)

-----------------------------------------------------------------------------
(* The same broker with the whole of its bookkeeping: Position.realized,    *)
(* the trade log TRADES and the brokerage of a SELL against a long.  The    *)
(* ledger is a record L with the fields of one Position and TRADES.         *)

CurLedger ==
  [ posQty |-> POSITIONS.posQty, avgPrice |-> POSITIONS.avgPrice,
    realized |-> POSITIONS.realized, TRADES |-> TRADES ]

CommitLedger(L) ==
  /\ POSITIONS' = [posQty |-> L.posQty, avgPrice |-> L.avgPrice,
                   realized |-> L.realized]
  /\ TRADES' = L.TRADES
  /\ UNCHANGED << machineVars, paperVars, engineVars, sizingVars,
                  socketVars, legacyVars >>
  /\ Len(L.TRADES) <= MaxTrades

(* p.realized += realizedPnl of applyBuyToPosition: a BUY covering a short *)
realizedPnl(L, qty, price) ==
  IF L.posQty >= 0 THEN 0
  ELSE (L.avgPrice - price) * Min(qty, 0 - L.posQty)

(* the value applySellToPosition returns and adds to p.realized *)
realizedForThisTrade(L, qty, price) ==
  IF L.posQty <= 0 THEN 0
  ELSE (price - L.avgPrice) * Min(qty, L.posQty)

(* -BROKERAGE_RATE * prevAvg * closingQty of placeLimitSell *)
brokerageForTrade(L, qty) ==
  IF L.posQty > 0
  THEN 0 - ((BrokeragePerMille * L.avgPrice * Min(qty, L.posQty)) \div 1000)
  ELSE 0

ledger_placeLimitBuy(L, qty, limitPrice) ==
  LET L1 == applyBuyToPosition(L, qty, limitPrice)
      L2 == [L1 EXCEPT !.realized = @ + realizedPnl(L, qty, limitPrice)]
  IN [L2 EXCEPT !.TRADES = Append(@, [side |-> "BUY", qty |-> qty,
                                      price |-> limitPrice, realized |-> 0,
                                      brokerage |-> 0])]

ledger_placeLimitSell(L, qty, limitPrice) ==
  LET realizedForTrade == realizedForThisTrade(L, qty, limitPrice)
      L1 == applySellToPosition(L, qty, limitPrice)
      L2 == [L1 EXCEPT !.realized = @ + realizedForTrade]
      netRealizedForTrade == realizedForTrade + brokerageForTrade(L, qty)
  IN [L2 EXCEPT !.TRADES = Append(@, [side |-> "SELL", qty |-> qty,
                                      price |-> limitPrice,
                                      realized |-> netRealizedForTrade,
                                      brokerage |-> brokerageForTrade(L, qty)])]

RECURSIVE SumRealized(_)
SumRealized(ts) ==
  IF ts = << >> THEN 0 ELSE Head(ts).realized + SumRealized(Tail(ts))

RECURSIVE SumBrokerage(_)
SumBrokerage(ts) ==
  IF ts = << >> THEN 0 ELSE Head(ts).brokerage + SumBrokerage(Tail(ts))

(* getPnL: the realized figures (one symbol) *)
getPnL(L) ==
  LET grossRealized == L.realized
      brokerage == SumBrokerage(L.TRADES)
  IN [grossRealized |-> grossRealized, brokerage |-> brokerage,
      realized |-> grossRealized + brokerage]

-----------------------------------------------------------------------------
(* Timers: setTimeout / clearTimeout of the single-threaded event loop *)

setTimeout(S, kind, anchor) ==
  [kind |-> kind, due |-> S.now + WindowMs, anchor |-> anchor]

clearTimeout(S, h) == [S EXCEPT !.timers = RemoveFirst(@, h)]

-----------------------------------------------------------------------------
(* Tick hub (the dataSocket module imported by the machines): latest-price  *)
(* cache, subscription list, synchronous replay of the cached price on      *)
(* subscribe.  The machines drop the unsubscribe function that              *)
(* onSymbolTick returns, so a handler is never removed.                     *)

RECURSIVE Invoke(_, _, _)

onSymbolTick(S, h) ==
  LET S1 == [S EXCEPT !.handlers = Append(@, h)]
  IN IF S1.ltp # Null THEN Invoke(S1, h, S1.ltp) ELSE S1

Handler(kind, anchor, windowEnd) ==
  [kind |-> kind, anchor |-> anchor, windowEnd |-> windowEnd]

-----------------------------------------------------------------------------
(* SymbolMachine, src/unnamed/part_002 *)

RECURSIVE startBuyWindow(_, _)

clearSellTimerOnly(S) ==
  LET S1 == IF S.sellWindowTimer # NoTimer
            THEN [clearTimeout(S, S.sellWindowTimer)
                    EXCEPT !.sellWindowTimer = NoTimer]
            ELSE S
  IN [S1 EXCEPT !.sellInPosExitDone = FALSE]

clearBuyTimerOnly(S) ==
  IF S.buyWindowTimer # NoTimer
  THEN [clearTimeout(S, S.buyWindowTimer) EXCEPT !.buyWindowTimer = NoTimer]
  ELSE S

clearBuyOnly(S) ==
  [clearBuyTimerOnly(S) EXCEPT !.buyWindowActive = FALSE,
                               !.buySilenceUntil = Null]

(* SellInPosTick without the sellInPosExitDone latch *)
SellInPosTick_NoLatch(S, tickLtp) ==
  IF S.state # "IN_SELL_WINDOW" THEN S
  ELSE IF ~S.hadPositionOnSell THEN S
  ELSE LET qty == getOpenQty(S)
       IN IF qty > 0
          THEN [placeLimitSell(S, qty, roundPrice(tickLtp - Half),
                               "SELL_INPOS_IMMEDIATE_EXIT")
                  EXCEPT !.windowSells = @ + 1]
          ELSE S

(* the tick handler registered by startSellWindowInPosition *)
SellInPosTick(S, tickLtp) ==
  IF S.state # "IN_SELL_WINDOW" THEN S
  ELSE IF ~S.hadPositionOnSell THEN S
  ELSE IF S.sellInPosExitDone THEN S
  ELSE LET qty == getOpenQty(S)
           S1  == IF qty > 0
                  THEN [placeLimitSell(S, qty, roundPrice(tickLtp - Half),
                                       "SELL_INPOS_IMMEDIATE_EXIT")
                          EXCEPT !.windowSells = @ + 1]
                  ELSE S
       IN [S1 EXCEPT !.sellInPosExitDone = TRUE]

startSellWindowInPosition(S) ==
  LET t  == setTimeout(S, "SELL_INPOS", Null)
      S1 == [S EXCEPT !.state = "IN_SELL_WINDOW",
                      !.sellInPosExitDone = FALSE,
                      !.started = Append(@, "SELL_INPOS"),
                      !.windowSells = 0,
                      !.timers = Append(@, t),
                      !.sellWindowTimer = t,
                      !.windowTimer = t]
  IN onSymbolTick(S1, Handler("SELL_INPOS", Null, Null))

(* the expiry callback armed by startSellWindowInPosition *)
SellInPosTimeout(S) ==
  [S EXCEPT !.sellWindowTimer = NoTimer, !.state = "IDLE",
            !.sellInPosExitDone = FALSE, !.hadPositionOnSell = FALSE]

(* flipToBuyFromSell placing the entry at the anchor itself *)
flipToBuyFromSell_AtAnchor(S, forcedAnchor, tag) ==
  LET S1 == [S EXCEPT !.savedBUYLTP = forcedAnchor,
                      !.savedLastBUYLTP = forcedAnchor,
                      !.flatSellLoop = FALSE]
      entryPx == roundPrice(forcedAnchor)
      qty == computeQtyFromPnLContext(S1)
  IN IF qty = Null THEN [S1 EXCEPT !.thrown = TRUE]
     ELSE startBuyWindow(placeLimitBuy(S1, qty, entryPx, tag), forcedAnchor)

flipToBuyFromSell(S, forcedAnchor, tag) ==
  LET S1 == [S EXCEPT !.savedBUYLTP = forcedAnchor,
                      !.savedLastBUYLTP = forcedAnchor,
                      !.flatSellLoop = FALSE]
      entryPx == roundPrice(forcedAnchor + Half)
      qty == computeQtyFromPnLContext(S1)
  IN IF qty = Null THEN [S1 EXCEPT !.thrown = TRUE]
     ELSE startBuyWindow(placeLimitBuy(S1, qty, entryPx, tag), forcedAnchor)

startSellWindowFlat(S) ==
  LET sellLtp == IF S.sellLtpAnchor # Null THEN S.sellLtpAnchor
                 ELSE IF nowLtp(S) # Null THEN nowLtp(S) ELSE 0
      S1 == [S EXCEPT !.sellLtpAnchor = sellLtp,
                      !.state = "IN_SELL_WINDOW",
                      !.started = Append(@, "SELL_FLAT"),
                      !.windowSells = 0]
      breakoutPx == roundPrice(sellLtp + Half)
      startLtp == IF nowLtp(S1) # Null THEN nowLtp(S1) ELSE sellLtp
      lastBuyRef == S1.savedLastBUYLTP
      t == setTimeout(S1, "SELL_FLAT", Null)
  IN IF startLtp > breakoutPx
     THEN flipToBuyFromSell([S1 EXCEPT !.state = "IDLE"],
                            roundPrice(sellLtp + 2 * Half),
                            "SELL_FLAT_BREAKOUT")
     ELSE IF lastBuyRef # Null /\ startLtp < lastBuyRef
     THEN flipToBuyFromSell([S1 EXCEPT !.state = "IDLE"],
                            roundPrice(startLtp),
                            "SELL_FLAT_REENTRY_DISCOUNT")
     ELSE [S1 EXCEPT !.timers = Append(@, t), !.sellWindowTimer = t,
                     !.windowTimer = t]

(* the expiry callback armed by startSellWindowFlat *)
SellFlatTimeout(S) ==
  LET S1 == [S EXCEPT !.sellWindowTimer = NoTimer]
  IN IF S1.state = "IN_SELL_WINDOW" THEN startSellWindowFlat(S1) ELSE S1

onSellSignal(S, sigLtp) ==
  LET openQty == getOpenQty(S)
      S1 == [S EXCEPT !.sellLtpAnchor = sigLtp,
                      !.pendingBuyAfterSell = TRUE,
                      !.hadPositionOnSell = openQty > 0,
                      !.stopDeadline = Null,
                      !.flatSellLoop = FALSE]
      S2 == clearSellTimerOnly(S1)
      S3 == IF S2.hadPositionOnSell
            THEN startSellWindowInPosition(S2)
            ELSE startSellWindowFlat(S2)
  IN IF S3.thrown THEN S3
     ELSE [S3 EXCEPT !.flatSellLoop =
                       ~S2.hadPositionOnSell /\ S3.state = "IN_SELL_WINDOW"]

(* BuyStopOut selling one lot instead of the open quantity *)
BuyStopOut_OneLot(S, h, tickLtp) ==
  LET qty == getOpenQty(S)
      S1  == IF qty > 0
             THEN [placeLimitSell(S, LotSize, roundPrice(tickLtp - Half),
                                  "BUY_WINDOW_STOP_OUT")
                     EXCEPT !.windowSells = @ + 1]
             ELSE S
  IN [S1 EXCEPT !.buyWindowActive = FALSE, !.state = "IDLE",
                !.buySilenceUntil = h.windowEnd,
                !.stopDeadline = S.buyWindowEnd]

(* rule A of the BUY-window tick handler: stop-out *)
BuyStopOut(S, h, tickLtp) ==
  LET qty == getOpenQty(S)
      S1  == IF qty > 0
             THEN [placeLimitSell(S, qty, roundPrice(tickLtp - Half),
                                  "BUY_WINDOW_STOP_OUT")
                     EXCEPT !.windowSells = @ + 1]
             ELSE S
  IN [S1 EXCEPT !.buyWindowActive = FALSE, !.state = "IDLE",
                !.buySilenceUntil = h.windowEnd,
                !.stopDeadline = S.buyWindowEnd]

(* the tick handler registered by startBuyWindow *)
BuyWindowTick(S, h, tickLtp) ==
  IF ~S.buyWindowActive THEN S
  ELSE IF S.state # "IN_BUY_WINDOW" THEN S
  ELSE LET anchorPx == IF S.savedBUYLTP # Null THEN S.savedBUYLTP
                       ELSE h.anchor
       IN IF tickLtp < roundPrice(anchorPx - Half)
          THEN BuyStopOut(S, h, tickLtp)
          ELSE IF getOpenQty(S) = 0 /\ tickLtp > anchorPx
          THEN LET qty2 == computeQtyFromPnLContext(S)
                   S1 == placeLimitBuy(S, qty2, roundPrice(tickLtp + Half),
                                       "BUY_WINDOW_BREAKOUT_REENTER")
                   S2 == clearBuyTimerOnly(
                           [S1 EXCEPT !.buyWindowActive = FALSE,
                                      !.state = "IDLE"])
               IN IF qty2 = Null THEN [S EXCEPT !.thrown = TRUE]
                  ELSE startBuyWindow([S2 EXCEPT !.buySilenceUntil = Null],
                                      anchorPx)
          ELSE S

startBuyWindow(S, anchor) ==
  LET S1 == clearBuyOnly(S)
      windowEnd == S1.now + WindowMs
      S2 == [S1 EXCEPT !.savedBUYLTP = anchor,
                       !.savedLastBUYLTP = anchor,
                       !.state = "IN_BUY_WINDOW",
                       !.buyWindowActive = TRUE,
                       !.started = Append(@, "BUY"),
                       !.windowSells = 0,
                       !.buyWindowEnd = windowEnd,
                       !.stopDeadline = Null]
      S3 == onSymbolTick(S2, Handler("BUY", anchor, windowEnd))
      t  == setTimeout(S1, "BUY", Null)
  IN [S3 EXCEPT !.timers = Append(@, t), !.buyWindowTimer = t,
                !.windowTimer = t]

(* the expiry callback armed by startBuyWindow *)
BuyTimeout(S) ==
  [S EXCEPT !.buyWindowTimer = NoTimer, !.buyWindowActive = FALSE,
            !.buySilenceUntil = Null, !.state = "IDLE"]

onBuySignal(S, sigLtp, forcedAnchor) ==
  IF S.buySilenceUntil # Null /\ S.buySilenceUntil # 0
     /\ S.now < S.buySilenceUntil
  THEN S
  ELSE LET S1 == [S EXCEPT !.pendingBuyAfterSell = FALSE,
                           !.flatSellLoop = FALSE]
           saved == IF forcedAnchor # Null THEN forcedAnchor ELSE sigLtp
           S2 == [S1 EXCEPT !.savedBUYLTP = saved]
           entryPx == roundPrice(saved + Half)
           qty == computeQtyFromPnLContext(S2)
           S3 == placeLimitBuy(S2, qty, entryPx, "BUY_SIGNAL_PREWINDOW")
       IN IF qty = Null THEN [S2 EXCEPT !.thrown = TRUE]
          ELSE IF S3.state = "IDLE" THEN startBuyWindow(S3, saved) ELSE S3

handleSignal(S, type, sigLtp) ==
  IF ~S.marketOpen THEN S
  ELSE IF type = "SELL_SIGNAL" THEN onSellSignal(S, sigLtp)
  ELSE onBuySignal(S, sigLtp, Null)

handleSellSignal(S, sigLtp) == handleSignal(S, "SELL_SIGNAL", sigLtp)

handleBuySignal(S, sigLtp, forcedAnchor) == onBuySignal(S, sigLtp, forcedAnchor)

-----------------------------------------------------------------------------
(* SymbolMachine with BUY-timeout re-entry, src/server/stateMachine.ts      *)
(* lines 443-915.  Same fields and helpers; the operators that differ from  *)
(* part_002 carry the suffix _B.                                            *)

RECURSIVE startBuyWindow_B(_, _)

(* the tick handler registered by startSellWindowInPosition *)
SellInPosTick_B(S, tickLtp) ==
  IF S.state # "IN_SELL_WINDOW" THEN S
  ELSE IF S.sellInPosExitDone THEN S
  ELSE LET qty == getOpenQty(S)
       IN IF qty <= 0
          THEN [S EXCEPT !.sellInPosExitDone = TRUE]
          ELSE [placeLimitSell(S, qty, roundPrice(tickLtp - Half),
                               "SELL_WINDOW_INPOS_EXIT")
                  EXCEPT !.windowSells = @ + 1,
                         !.sellInPosExitDone = TRUE]

startSellWindowInPosition_B(S) ==
  LET t  == setTimeout(S, "SELL_INPOS_B", Null)
      S1 == [S EXCEPT !.state = "IN_SELL_WINDOW",
                      !.sellInPosExitDone = FALSE,
                      !.started = Append(@, "SELL_INPOS"),
                      !.windowSells = 0,
                      !.timers = Append(@, t),
                      !.sellWindowTimer = t,
                      !.windowTimer = t]
  IN onSymbolTick(S1, Handler("SELL_INPOS_B", Null, Null))

(* the expiry callback armed by either SELL window *)
SellTimeout_B(S) ==
  [S EXCEPT !.sellWindowTimer = NoTimer, !.state = "IDLE"]

startSellWindowFlat_B(S) ==
  LET S1 == [S EXCEPT !.state = "IN_SELL_WINDOW",
                      !.started = Append(@, "SELL_FLAT"),
                      !.windowSells = 0]
      sellLtp == IF S1.sellLtpAnchor # Null THEN S1.sellLtpAnchor
                 ELSE IF nowLtp(S1) # Null THEN nowLtp(S1) ELSE 0
      breakoutPx == roundPrice(sellLtp + 2 * Half)
      startLtp == IF nowLtp(S1) # Null THEN nowLtp(S1) ELSE sellLtp
      forcedAnchor == roundPrice(sellLtp + 2 * Half)
      S2 == IF startLtp > breakoutPx
            THEN [S1 EXCEPT !.pendingBuyAfterSell = FALSE,
                            !.savedBUYLTP = forcedAnchor,
                            !.savedLastBUYLTP = forcedAnchor]
            ELSE S1
      t == setTimeout(S2, "SELL_FLAT_B", Null)
  IN [S2 EXCEPT !.timers = Append(@, t), !.sellWindowTimer = t,
                !.windowTimer = t]

onSellSignal_B(S, sigLtp) ==
  LET openQty == getOpenQty(S)
      S1 == [S EXCEPT !.hadPositionOnSell = openQty > 0,
                      !.sellInPosExitDone = FALSE,
                      !.sellLtpAnchor = sigLtp,
                      !.pendingBuyAfterSell = TRUE,
                      !.stopDeadline = Null]
      S2 == clearBuyOnly(S1)
  IN IF openQty > 0
     THEN startSellWindowInPosition_B(S2)
     ELSE startSellWindowFlat_B(S2)

(* rule A of the BUY-window tick handler: stop-out *)
BuyStopOut_B(S, h, tickLtp) ==
  LET qty == getOpenQty(S)
      S1  == IF qty > 0
             THEN [placeLimitSell(S, qty, roundPrice(tickLtp - Half),
                                  "BUY_WINDOW_STOP_OUT")
                     EXCEPT !.windowSells = @ + 1]
             ELSE S
  IN clearBuyTimerOnly([S1 EXCEPT !.buyWindowActive = FALSE,
                                  !.state = "IDLE",
                                  !.buySilenceUntil = h.windowEnd,
                                  !.stopDeadline = S.buyWindowEnd])

(* the tick handler registered by startBuyWindow *)
BuyWindowTick_B(S, h, tickLtp) ==
  IF ~S.buyWindowActive THEN S
  ELSE IF S.state # "IN_BUY_WINDOW" THEN S
  ELSE LET anchorPx == IF S.savedBUYLTP # Null THEN S.savedBUYLTP
                       ELSE h.anchor
       IN IF tickLtp < roundPrice(anchorPx - Half)
          THEN BuyStopOut_B(S, h, tickLtp)
          ELSE IF getOpenQty(S) = 0 /\ tickLtp > anchorPx
          THEN LET qty2 == computeQtyFromPnLContext(S)
                   S1 == placeLimitBuy(S, qty2, roundPrice(tickLtp + Half),
                                       "BUY_WINDOW_BREAKOUT_REENTER")
                   S2 == clearBuyTimerOnly(
                           [S1 EXCEPT !.buyWindowActive = FALSE,
                                      !.state = "IDLE"])
               IN IF qty2 = Null THEN [S EXCEPT !.thrown = TRUE]
                  ELSE startBuyWindow_B([S2 EXCEPT !.buySilenceUntil = Null],
                                        anchorPx)
          ELSE S

(* the expiry callback armed by startBuyWindow *)
BuyTimeout_B(S, t) ==
  LET S1 == [S EXCEPT !.buyWindowTimer = NoTimer,
                      !.buyWindowActive = FALSE,
                      !.buySilenceUntil = Null,
                      !.stopDeadline = Null]
      anchorPx == IF S1.savedBUYLTP # Null THEN S1.savedBUYLTP ELSE t.anchor
      ltpNow == IF nowLtp(S1) # Null THEN nowLtp(S1) ELSE anchorPx
      flat == getOpenQty(S1) = 0
  IN IF flat /\ ltpNow > anchorPx
     THEN LET qty2 == computeQtyFromPnLContext(S1)
              S2 == placeLimitBuy(S1, qty2, roundPrice(ltpNow + Half),
                                  "BUY_TIMEOUT_BREAKOUT_REENTER")
          IN IF qty2 = Null THEN [S1 EXCEPT !.thrown = TRUE]
             ELSE startBuyWindow_B([S2 EXCEPT !.state = "IDLE"], anchorPx)
     ELSE [S1 EXCEPT !.state = "IDLE"]

startBuyWindow_B(S, anchor) ==
  LET S1 == clearBuyOnly(S)
      windowEnd == S1.now + WindowMs
      S2 == [S1 EXCEPT !.savedBUYLTP = anchor,
                       !.savedLastBUYLTP = anchor,
                       !.state = "IN_BUY_WINDOW",
                       !.buyWindowActive = TRUE,
                       !.started = Append(@, "BUY"),
                       !.windowSells = 0,
                       !.buyWindowEnd = windowEnd,
                       !.stopDeadline = Null]
      S3 == onSymbolTick(S2, Handler("BUY_B", anchor, windowEnd))
      t  == setTimeout(S1, "BUY_B", anchor)
  IN [S3 EXCEPT !.timers = Append(@, t), !.buyWindowTimer = t,
                !.windowTimer = t]

onBuySignal_B(S, sigLtp, forcedAnchor) ==
  IF S.buySilenceUntil # Null /\ S.buySilenceUntil # 0
     /\ S.now < S.buySilenceUntil
  THEN S
  ELSE LET S1 == [S EXCEPT !.pendingBuyAfterSell = FALSE]
           saved == IF forcedAnchor # Null THEN forcedAnchor ELSE sigLtp
           qty == computeQtyFromPnLContext(S1)
           entryPx == roundPrice(saved + Half)
           tag == IF forcedAnchor # Null /\ forcedAnchor # 0
                  THEN "BUY_SIGNAL_FORCED_ANCHOR"
                  ELSE "BUY_SIGNAL_PREWINDOW"
       IN IF qty = Null THEN [S1 EXCEPT !.thrown = TRUE]
          ELSE startBuyWindow_B(placeLimitBuy(S1, qty, entryPx, tag), saved)

handleSignal_B(S, type, sigLtp) ==
  IF ~S.marketOpen THEN S
  ELSE IF type = "SELL_SIGNAL" THEN onSellSignal_B(S, sigLtp)
  ELSE onBuySignal_B(S, sigLtp, Null)

handleBuySignal_B(S, sigLtp, forcedAnchor) ==
  LET S1 == handleSignal_B(S, "BUY_SIGNAL", sigLtp)
  IN IF forcedAnchor # Null
     THEN onBuySignal_B(S1, sigLtp, forcedAnchor)
     ELSE S1

handleSellSignal_B(S, sigLtp) == handleSignal_B(S, "SELL_SIGNAL", sigLtp)

-----------------------------------------------------------------------------
(* SymbolMachine, Sell-Start anchor with SELL-window breakout,              *)
(* src/server/stateMachine.ts lines 1-441.  Fields this variant adds are in *)
(* S.ssa; sellStartBuyAnchor and buyWindowIdxSinceSell are ANCHOR[sym],     *)
(* whose savedBUYLTP and pendingBuyAfterSell are the fields of S of that    *)
(* name.  lastSellReason, written and only logged, is left out.             *)
(* S.ssa.depth is the number of startBuyWindow frames on the call stack: a  *)
(* stack of more than MaxStack frames ends the event with a RangeError.     *)
(* S.ssa.restarts counts the windows the guard handlers restarted during    *)
(* the event.                                                               *)

SymbolMachine_A ==
  [ buyWindowSilenced |-> FALSE, sellWindowActive |-> FALSE,
    sellWindowDoNothing |-> FALSE, sellWindowStartLtp |-> Null,
    sellWindowBreakoutPx |-> Null, breakoutTriggeredInPos |-> FALSE,
    sellStartBuyAnchor |-> Null, buyWindowIdxSinceSell |-> 0,
    depth |-> 0, restarts |-> 0 ]

RECURSIVE startBuyWindow_A(_, _, _)
RECURSIVE Invoke_A(_, _, _)

(* the tick hub as this variant meets it: onSymbolTick, with the replay of *)
(* the cached price to the new handler                                     *)
onSymbolTick_A(S, h) ==
  LET S1 == [S EXCEPT !.handlers = Append(@, h)]
  IN IF S1.ltp # Null THEN Invoke_A(S1, h, S1.ltp) ELSE S1

cancelSellWindowTimerOnly(S) ==
  IF S.sellWindowTimer # NoTimer
  THEN [clearTimeout(S, S.sellWindowTimer) EXCEPT !.sellWindowTimer = NoTimer]
  ELSE S

clearTimers(S) ==
  LET S1 == cancelSellWindowTimerOnly(S)
      S2 == IF S1.buyWindowTimer # NoTimer
            THEN [clearTimeout(S1, S1.buyWindowTimer)
                    EXCEPT !.buyWindowTimer = NoTimer]
            ELSE S1
  IN [S2 EXCEPT !.ssa.sellWindowActive = FALSE,
                !.ssa.sellWindowDoNothing = FALSE,
                !.ssa.sellWindowStartLtp = Null,
                !.ssa.sellWindowBreakoutPx = Null,
                !.hadPositionOnSell = FALSE,
                !.ssa.breakoutTriggeredInPos = FALSE]

(* startBuyWindow returns to the guard handler that called it, unless it *)
(* threw                                                                 *)
Return_A(S) == IF S.thrown THEN S ELSE [S EXCEPT !.ssa.depth = @ - 1]

(* setTimeout and the assignment of the handle, which an exception in the *)
(* registration before them skips                                        *)
ArmTimer_A(S, kind, ms) ==
  LET t == [kind |-> kind, due |-> S.now + ms, anchor |-> Null]
  IN IF S.thrown THEN S
     ELSE IF kind = "BUY_A"
     THEN [S EXCEPT !.timers = Append(@, t), !.buyWindowTimer = t,
                    !.windowTimer = t]
     ELSE [S EXCEPT !.timers = Append(@, t), !.sellWindowTimer = t,
                    !.windowTimer = t]

(* the tick handler registered by armBuyWindowGuards; h.anchor is the      *)
(* sellStartAnchor its closure captured.  An exception ends the delivery.  *)
BuyGuardTick_A(S, h, tickLtp) ==
  IF S.thrown THEN S
  ELSE IF S.state # "IN_BUY_WINDOW" THEN S
  ELSE IF S.ssa.buyWindowSilenced THEN S
  ELSE IF S.ssa.buyWindowIdxSinceSell > 1 /\ tickLtp < h.anchor
  THEN IF S.ssa.depth >= MaxStack THEN [S EXCEPT !.thrown = TRUE]
       ELSE LET S1 == [S EXCEPT !.savedBUYLTP = h.anchor,
                                !.ssa.buyWindowSilenced = TRUE,
                                !.ssa.restarts = @ + 1,
                                !.ssa.depth = @ + 1]
            IN Return_A(startBuyWindow_A(S1, tickLtp, Null))
  ELSE S

(* the expiry callback armed by armBuyWindowGuards *)
BuyTimeout_A(S) == [S EXCEPT !.buyWindowTimer = NoTimer, !.state = "IDLE"]

armBuyWindowGuards(S, sellStartAnchor, untilTs) ==
  ArmTimer_A(onSymbolTick_A(S, Handler("BUY_A", sellStartAnchor, Null)),
             "BUY_A", IF untilTs > S.now THEN untilTs - S.now ELSE 0)

startBuyWindow_A(S, nowLtpPx, forcedAnchor) ==
  LET S1 == clearTimers(S)
      computedAnchor == IF forcedAnchor # Null THEN forcedAnchor
                        ELSE IF S1.ssa.sellStartBuyAnchor # Null
                        THEN S1.ssa.sellStartBuyAnchor
                        ELSE nowLtpPx
      S2 == [S1 EXCEPT !.savedBUYLTP = computedAnchor,
                       !.ssa.buyWindowIdxSinceSell = @ + 1,
                       !.state = "IN_BUY_WINDOW",
                       !.ssa.buyWindowSilenced = FALSE,
                       !.started = Append(@, "BUY")]
      untilTs == S2.now + WindowMs
      l == IF nowLtp(S2) # Null THEN nowLtp(S2) ELSE nowLtpPx
      limitPx == roundPrice(l + Half)
      qty == computeQtyFromPnLContext(S2)
      S3 == IF getOpenQty(S2) = 0
            THEN IF qty = Null THEN [S2 EXCEPT !.thrown = TRUE]
                 ELSE placeLimitBuy(S2, qty, limitPx, "BUY_WINDOW_IMMEDIATE")
            ELSE S2
  IN IF S3.thrown THEN S3
     ELSE armBuyWindowGuards(S3, computedAnchor, untilTs)

onSellWindowEnded(S) ==
  LET ltpNow == IF nowLtp(S) # Null THEN nowLtp(S) ELSE 0
  IN IF S.ssa.breakoutTriggeredInPos /\ S.ssa.sellWindowStartLtp # Null
     THEN startBuyWindow_A(S, ltpNow, S.ssa.sellWindowStartLtp)
     ELSE startBuyWindow_A(S, ltpNow, Null)

(* the expiry callback armed by startSellWindow *)
SellTimeout_A(S) ==
  onSellWindowEnded([S EXCEPT !.sellWindowTimer = NoTimer,
                              !.ssa.sellWindowActive = FALSE])

(* the breakout watcher registered by startSellWindow *)
SellBreakoutTick_A(S, tickLtp) ==
  IF S.thrown THEN S
  ELSE IF ~S.ssa.sellWindowActive THEN S
  ELSE IF S.ssa.sellWindowDoNothing THEN S
  ELSE IF tickLtp > S.ssa.sellWindowBreakoutPx
  THEN IF S.hadPositionOnSell
       THEN LET q == getOpenQty(S)
                S1 == IF q > 0
                      THEN placeLimitSell(S, q, roundPrice(tickLtp - Half),
                                          "SELL_BREAKOUT_EXIT")
                      ELSE S
            IN [S1 EXCEPT !.ssa.breakoutTriggeredInPos = TRUE,
                          !.ssa.sellWindowDoNothing = TRUE]
       ELSE LET S1 == [cancelSellWindowTimerOnly(S)
                         EXCEPT !.ssa.sellWindowActive = FALSE]
            IN startBuyWindow_A(S1, tickLtp, S.ssa.sellWindowBreakoutPx)
  ELSE S

startSellWindow(S, ltpAtStart, hadPos) ==
  LET S1 == clearTimers(S)
      S2 == [S1 EXCEPT !.pendingBuyAfterSell = TRUE,
                       !.ssa.buyWindowIdxSinceSell = 0,
                       !.state = "IN_SELL_WINDOW",
                       !.ssa.sellWindowActive = TRUE,
                       !.ssa.sellWindowDoNothing = FALSE,
                       !.hadPositionOnSell = hadPos,
                       !.ssa.breakoutTriggeredInPos = FALSE,
                       !.ssa.sellWindowStartLtp = ltpAtStart,
                       !.ssa.sellWindowBreakoutPx =
                          roundPrice(ltpAtStart + Half),
                       !.started = Append(@,
                          IF hadPos THEN "SELL_INPOS" ELSE "SELL_FLAT")]
  IN ArmTimer_A(onSymbolTick_A(S2, Handler("SELL_A", Null, Null)),
                "SELL_A", WindowMs)

Invoke_A(S, h, tickLtp) ==
  CASE h.kind = "SELL_A" -> SellBreakoutTick_A(S, tickLtp)
    [] h.kind = "BUY_A"  -> BuyGuardTick_A(S, h, tickLtp)

Callback_A(S, t) ==
  CASE t.kind = "SELL_A" -> SellTimeout_A(S)
    [] t.kind = "BUY_A"  -> BuyTimeout_A(S)

RECURSIVE Deliver_A(_, _, _)
Deliver_A(S, hs, tickLtp) ==
  IF hs = << >> THEN S
  ELSE Deliver_A(Invoke_A(S, Head(hs), tickLtp), Tail(hs), tickLtp)

ingest_A(S, tickLtp) ==
  LET S1 == [S EXCEPT !.ltp = tickLtp]
  IN Deliver_A(S1, S1.handlers, tickLtp)

onSellSignal_A(S, sigLtp) == startSellWindow(S, sigLtp, getOpenQty(S) > 0)

onBuySignal_A(S, sigLtp) ==
  LET S1 == IF S.pendingBuyAfterSell
            THEN [S EXCEPT !.ssa.sellStartBuyAnchor = sigLtp,
                           !.pendingBuyAfterSell = FALSE]
            ELSE S
  IN IF S1.state = "IDLE" THEN startBuyWindow_A(S1, sigLtp, Null) ELSE S1

handleSignal_A(S, type, sigLtp) ==
  IF ~S.marketOpen THEN S
  ELSE IF type = "SELL_SIGNAL" THEN onSellSignal_A(S, sigLtp)
  ELSE onBuySignal_A(S, sigLtp)

-----------------------------------------------------------------------------
(* Pending-order PaperBroker, src/unnamed/part_008.  The broker state is a  *)
(* record P, so that a method is a function P -> P.                         *)

TickSize == 10

roundToTick(price) == ((price + TickSize \div 2) \div TickSize) * TickSize

Sign(x) == IF x > 0 THEN 1 ELSE IF x < 0 THEN 0 - 1 ELSE 0

Max(a, b) == IF a > b THEN a ELSE b

CurPaper ==
  [ quoteCache |-> quoteCache, seq |-> paperSeq, orders |-> paperOrders,
    positions |-> paperPositions, realized |-> realizedBySymbol ]

CommitPaper(P, e) ==
  /\ quoteCache' = P.quoteCache
  /\ paperSeq' = P.seq
  /\ paperOrders' = P.orders
  /\ paperPositions' = P.positions
  /\ realizedBySymbol' = P.realized
  /\ paperEvent' = e
  /\ UNCHANGED << machineVars, engineVars, ledgerVars, sizingVars,
                  socketVars, legacyVars >>
  /\ Len(P.orders) <= MaxPaperOrders

paper_placeLimit(P, symbol, side, qty, limitPrice) ==
  LET order == [orderId |-> P.seq, symbol |-> symbol, side |-> side,
                qty |-> Max(1, qty), limitPrice |-> roundToTick(limitPrice),
                status |-> "PENDING", filledPrice |-> Null]
  IN [P EXCEPT !.seq = @ + 1, !.orders = Append(@, order)]

paper_cancelOrder(P, orderId) ==
  [P EXCEPT !.orders =
     [i \in 1..Len(@) |->
        IF @[i].orderId = orderId /\ @[i].status = "PENDING"
        THEN [@[i] EXCEPT !.status = "CANCELLED"]
        ELSE @[i]]]

addRealized(P, symbol, amt) ==
  [P EXCEPT !.realized[symbol] = @ + amt]

paper_applyFill(P, o) ==
  LET px == IF o.filledPrice # Null THEN o.filledPrice ELSE o.limitPrice
      sign == IF o.side = "BUY" THEN 1 ELSE 0 - 1
      prior == P.positions[o.symbol]
      newQty == prior.qty + sign * o.qty
      closingQty == Min(Abs(prior.qty), o.qty)
      realized == IF prior.qty > 0
                  THEN (px - prior.avgPrice) * closingQty
                  ELSE (prior.avgPrice - px) * closingQty
      residual == o.qty - closingQty
      remaining == Sign(prior.qty) * (Abs(prior.qty) - closingQty)
      P1 == IF closingQty > 0 THEN addRealized(P, o.symbol, realized) ELSE P
      absPrior == IF sign > 0 THEN Max(prior.qty, 0)
                  ELSE Abs(Min(prior.qty, 0))
      cost == absPrior * prior.avgPrice + o.qty * px
      qty == absPrior + o.qty
  IN IF prior.qty # 0 /\ Sign(prior.qty) # Sign(sign)
     THEN IF residual > 0
          THEN [P1 EXCEPT !.positions[o.symbol] =
                            [qty |-> sign * residual, avgPrice |-> px]]
          ELSE IF remaining # 0
          THEN [P1 EXCEPT !.positions[o.symbol] =
                            [qty |-> remaining, avgPrice |-> prior.avgPrice]]
          ELSE [P1 EXCEPT !.positions[o.symbol] =
                            [qty |-> 0, avgPrice |-> 0]]
     ELSE IF newQty = 0
     THEN [P EXCEPT !.positions[o.symbol] = [qty |-> 0, avgPrice |-> 0]]
     ELSE IF Sign(newQty) = Sign(prior.qty) \/ prior.qty = 0
     THEN [P EXCEPT !.positions[o.symbol] =
                      [qty |-> newQty, avgPrice |-> cost \div qty]]
     ELSE [P EXCEPT !.positions[o.symbol] =
                      [qty |-> newQty, avgPrice |-> prior.avgPrice]]

RECURSIVE FillCrossed(_, _, _, _)
(* the loop of onTick over this.orders.values(), from index i on *)
FillCrossed(P, symbol, tickLtp, i) ==
  IF i > Len(P.orders) THEN P
  ELSE LET o == P.orders[i]
       IN IF o.symbol # symbol THEN FillCrossed(P, symbol, tickLtp, i + 1)
          ELSE IF o.status # "PENDING"
          THEN FillCrossed(P, symbol, tickLtp, i + 1)
          ELSE IF \/ (o.side = "BUY" /\ tickLtp <= o.limitPrice)
                  \/ (o.side = "SELL" /\ tickLtp >= o.limitPrice)
          THEN LET f == [o EXCEPT !.status = "FILLED",
                                  !.filledPrice = o.limitPrice]
                   P1 == [P EXCEPT !.orders[i] = f]
               IN FillCrossed(paper_applyFill(P1, f), symbol, tickLtp, i + 1)
          ELSE FillCrossed(P, symbol, tickLtp, i + 1)

paper_onTick(P, symbol, tickLtp) ==
  FillCrossed([P EXCEPT !.quoteCache[symbol] = tickLtp], symbol, tickLtp, 1)

onTickFromMarket(P, symbol, tickLtp) ==
  paper_onTick([P EXCEPT !.quoteCache[symbol] = tickLtp], symbol, tickLtp)

placeLimitOrderV3(P, symbol, side, qty, limitPrice) ==
  paper_placeLimit(P, symbol, side, qty, roundToTick(limitPrice))

cancelOrderV3(P, orderId) == paper_cancelOrder(P, orderId)

-----------------------------------------------------------------------------
(* Tick-cross paper engine, src/unnamed/part_005, in paper mode.  The       *)
(* engine state is a record E, so that a function of the module is a        *)
(* function E -> E.  A position never seen is the one getOrInitPos creates. *)
(* Orders are drawn at one limit price, so every average is whole.          *)

CurEngine ==
  [ LAST_TICK |-> LAST_TICK, ORDERS |-> ORDERS, orderSeq |-> orderSeq,
    POS |-> POS, fills |-> << >>, ok |-> TRUE ]

CommitEngine(E, e) ==
  /\ LAST_TICK' = E.LAST_TICK
  /\ ORDERS' = E.ORDERS
  /\ orderSeq' = E.orderSeq
  /\ POS' = E.POS
  /\ fills' = E.fills
  /\ engineEvent' = [e EXCEPT !.ok = E.ok]
  /\ UNCHANGED << machineVars, paperVars, ledgerVars, sizingVars,
                  socketVars, legacyVars >>
  /\ Len(E.ORDERS) <= MaxEngineOrders

getOrInitPos == [posQty |-> 0, avgPrice |-> 0, realized |-> 0]

(* shouldFill with strict comparisons *)
shouldFill_Strict(o, tickLtp) ==
  IF o.side = "BUY" THEN tickLtp < o.limitPrice
  ELSE tickLtp > o.limitPrice

shouldFill(o, tickLtp) ==
  IF o.side = "BUY" THEN tickLtp <= o.limitPrice
  ELSE tickLtp >= o.limitPrice

(* the body of the loop of tryFillPending after the status is set: the      *)
(* position update for the filled order o                                   *)
fillPosition(pos, o) ==
  LET newQtyBuy == pos.posQty + o.qty
      coverQty == Min(o.qty, 0 - pos.posQty)
      coverRem == o.qty - coverQty
      newQtySell == pos.posQty - o.qty
      exitQty == Min(o.qty, pos.posQty)
      exitRem == o.qty - exitQty
  IN IF o.side = "BUY"
     THEN IF pos.posQty >= 0
          THEN [pos EXCEPT
                  !.avgPrice = (pos.avgPrice * pos.posQty + o.limitPrice * o.qty)
                                 \div (IF newQtyBuy = 0 THEN 1 ELSE newQtyBuy),
                  !.posQty = newQtyBuy]
          ELSE LET p1 == [pos EXCEPT
                            !.realized = @ + (pos.avgPrice - o.limitPrice) * coverQty,
                            !.posQty = @ + coverQty]
               IN IF coverRem > 0
                  THEN [p1 EXCEPT !.avgPrice = o.limitPrice,
                                  !.posQty = @ + coverRem]
                  ELSE IF p1.posQty = 0
                  THEN [p1 EXCEPT !.avgPrice = o.limitPrice]
                  ELSE p1
     ELSE IF pos.posQty <= 0
          THEN [pos EXCEPT
                  !.avgPrice = (pos.avgPrice * (0 - pos.posQty) + o.limitPrice * o.qty)
                                 \div (IF newQtySell = 0 THEN 1 ELSE 0 - newQtySell),
                  !.posQty = newQtySell]
          ELSE LET p1 == [pos EXCEPT
                            !.realized = @ + (o.limitPrice - pos.avgPrice) * exitQty,
                            !.posQty = @ - exitQty]
               IN IF exitRem > 0
                  THEN [p1 EXCEPT !.avgPrice = o.limitPrice,
                                  !.posQty = @ - exitRem]
                  ELSE IF p1.posQty = 0
                  THEN [p1 EXCEPT !.avgPrice = o.limitPrice]
                  ELSE p1

RECURSIVE tryFillFrom(_, _, _, _)
(* the loop of tryFillPending over ORDERS.values(), from index i on *)
tryFillFrom(E, symbol, tickLtp, i) ==
  IF i > Len(E.ORDERS) THEN E
  ELSE LET o == E.ORDERS[i]
       IN IF o.symbol # symbol THEN tryFillFrom(E, symbol, tickLtp, i + 1)
          ELSE IF o.status # "PENDING"
          THEN tryFillFrom(E, symbol, tickLtp, i + 1)
          ELSE IF ~shouldFill(o, tickLtp)
          THEN tryFillFrom(E, symbol, tickLtp, i + 1)
          ELSE LET E1 == [E EXCEPT
                            !.ORDERS[i].status = "FILLED",
                            !.POS[symbol] = fillPosition(@, o),
                            !.fills = Append(@, [id |-> o.id,
                                                 price |-> o.limitPrice])]
               IN tryFillFrom(E1, symbol, tickLtp, i + 1)

tryFillPending(E, symbol, tickLtp) == tryFillFrom(E, symbol, tickLtp, 1)

engine_onTickFromMarket(E, symbol, tickLtp) ==
  tryFillPending([E EXCEPT !.LAST_TICK[symbol] = tickLtp], symbol, tickLtp)

engine_placeLimitOrderV3(E, symbol, side, qty, limitPrice) ==
  LET o == [id |-> E.orderSeq, symbol |-> symbol, side |-> side,
            qty |-> Max(1, qty), limitPrice |-> limitPrice,
            status |-> "PENDING"]
      E1 == [E EXCEPT !.orderSeq = @ + 1, !.ORDERS = Append(@, o)]
      l == E1.LAST_TICK[symbol]
  IN IF l # Null THEN tryFillPending(E1, symbol, l) ELSE E1

(* cancelOrderV3 without the test of the status *)
engine_cancelOrderV3_AnyStatus(E, orderId) ==
  IF ~(\E i \in 1..Len(E.ORDERS) : E.ORDERS[i].id = orderId)
  THEN [E EXCEPT !.ok = FALSE]
  ELSE [E EXCEPT !.ORDERS =
          [i \in 1..Len(@) |->
             IF @[i].id = orderId THEN [@[i] EXCEPT !.status = "CANCELLED"]
             ELSE @[i]]]

engine_cancelOrderV3(E, orderId) ==
  IF ~(\E i \in 1..Len(E.ORDERS) :
         E.ORDERS[i].id = orderId /\ E.ORDERS[i].status = "PENDING")
  THEN [E EXCEPT !.ok = FALSE]
  ELSE [E EXCEPT !.ORDERS =
          [i \in 1..Len(@) |->
             IF @[i].id = orderId THEN [@[i] EXCEPT !.status = "CANCELLED"]
             ELSE @[i]]]

-----------------------------------------------------------------------------
(* DataSocket, src/server/dataSocket.ts lines 22-83, feeding the quote      *)
(* cache and the PaperBroker of src/unnamed/part_008.  The socket and the   *)
(* broker module are one record W.  A listener is a consumer callback; the  *)
(* one drawn here reads the last price of its symbol when it is invoked.    *)

CurSocket ==
  [ subscriptions |-> subscriptions, connected |-> connected,
    tickListeners |-> tickListeners, unsubscribers |-> unsubscribers,
    delivered |-> << >>, paper |-> CurPaper ]

CommitSocket(W, e) ==
  /\ subscriptions' = W.subscriptions
  /\ connected' = W.connected
  /\ tickListeners' = W.tickListeners
  /\ unsubscribers' = W.unsubscribers
  /\ delivered' = W.delivered
  /\ socketEvent' = e
  /\ quoteCache' = W.paper.quoteCache
  /\ paperSeq' = W.paper.seq
  /\ paperOrders' = W.paper.orders
  /\ paperPositions' = W.paper.positions
  /\ realizedBySymbol' = W.paper.realized
  /\ UNCHANGED << paperEvent, machineVars, engineVars, ledgerVars,
                  sizingVars, legacyVars >>
  /\ Len(W.unsubscribers) <= MaxSubscribes

(* getQuotesV3(symbol).ltp of part_008: the cached price, or null *)
getQuotesV3(P, symbol) == P.quoteCache[symbol]

DataSocket_connect(W) == [W EXCEPT !.connected = TRUE]

(* listener: TRUE when the caller passes one *)
DataSocket_subscribe(W, symbol, listener) ==
  LET W1 == DataSocket_connect(W)
      count == W1.subscriptions[symbol]
      W2 == [W1 EXCEPT !.subscriptions[symbol] = count + 1]
      W3 == IF listener
            THEN [W2 EXCEPT !.tickListeners = Append(@, [symbol |-> symbol])]
            ELSE W2
  IN [W3 EXCEPT !.unsubscribers =
                  Append(@, [symbol |-> symbol,
                             listener |-> IF listener
                                          THEN Len(W3.tickListeners)
                                          ELSE Null,
                             calls |-> 0])]

DataSocket_unsubscribe(W, symbol, listener) ==
  LET count == W.subscriptions[symbol]
      next == Max(0, count - 1)
  IN [W EXCEPT !.subscriptions[symbol] = next]

RECURSIVE emit(_, _, _, _)
(* this.emit("tick", ...): the listeners run in registration order, each    *)
(* passing the tick on when it is for its symbol; from listener i on        *)
emit(W, symbol, tickLtp, i) ==
  IF i > Len(W.tickListeners) THEN W
  ELSE IF W.tickListeners[i].symbol # symbol
  THEN emit(W, symbol, tickLtp, i + 1)
  ELSE emit([W EXCEPT !.delivered =
                        Append(@, [listener |-> i, ltp |-> tickLtp,
                                   read |-> getQuotesV3(W.paper, symbol)])],
            symbol, tickLtp, i + 1)

handleIncomingTick(W, symbol, tickLtp) ==
  LET W1 == emit(W, symbol, tickLtp, 1)
  IN [W1 EXCEPT !.paper = onTickFromMarket(@, symbol, tickLtp)]

injectTick(W, symbol, tickLtp) == handleIncomingTick(W, symbol, tickLtp)

-----------------------------------------------------------------------------
(* Legacy TradeStateMachine, src/stateMachine.ts, on the tick-cross engine  *)
(* of src/unnamed/part_005.  The machine, the clock, the timer queue, the   *)
(* environment and the engine are one record M, so that a method is a       *)
(* function M -> M.  An await resolves within the event: a handler runs to  *)
(* its end before the next event.  M.thrown: the handler has ended with an  *)
(* exception.  buySignalAt, written and never read, is left out.            *)

NoLegacyTimer == [kind |-> "NONE", due |-> Null]

(* the fields of a new TradeStateMachine *)
TradeStateMachine ==
  [ state |-> "IDLE", prevSavedLTP |-> Null, reentryDeadline |-> Null,
    reentryTimer |-> NoLegacyTimer, rollingActive |-> FALSE,
    cancelReentryDueToSell |-> FALSE, sellArmed |-> FALSE,
    sellArmRefLTP |-> Null, entryOrderId |-> Null, entryRefLTP |-> Null,
    exiting |-> FALSE ]

CurLegacy ==
  [ state |-> tsm.state, prevSavedLTP |-> tsm.prevSavedLTP,
    reentryDeadline |-> tsm.reentryDeadline,
    reentryTimer |-> tsm.reentryTimer, rollingActive |-> tsm.rollingActive,
    cancelReentryDueToSell |-> tsm.cancelReentryDueToSell,
    sellArmed |-> tsm.sellArmed, sellArmRefLTP |-> tsm.sellArmRefLTP,
    entryOrderId |-> tsm.entryOrderId, entryRefLTP |-> tsm.entryRefLTP,
    exiting |-> tsm.exiting,
    now |-> tsmNow, timers |-> tsmTimers, PAPERTRADE |-> PAPERTRADE,
    fyersClient |-> fyersClient, engine |-> CurEngine, paper |-> CurPaper,
    thrown |-> FALSE, exitError |-> FALSE, cancelOk |-> "NONE",
    entryAt |-> tsmEvent.entryAt ]

CommitLegacy(M, e) ==
  /\ tsm' = [ state |-> M.state, prevSavedLTP |-> M.prevSavedLTP,
              reentryDeadline |-> M.reentryDeadline,
              reentryTimer |-> M.reentryTimer,
              rollingActive |-> M.rollingActive,
              cancelReentryDueToSell |-> M.cancelReentryDueToSell,
              sellArmed |-> M.sellArmed, sellArmRefLTP |-> M.sellArmRefLTP,
              entryOrderId |-> M.entryOrderId, entryRefLTP |-> M.entryRefLTP,
              exiting |-> M.exiting ]
  /\ tsmNow' = M.now
  /\ tsmTimers' = M.timers
  /\ tsmEvent' = [e EXCEPT !.exitError = M.exitError,
                           !.cancelOk = M.cancelOk, !.thrown = M.thrown,
                           !.sellSinceBuy =
                              IF e.kind = "SELL_SIGNAL" THEN TRUE
                              ELSE IF e.kind = "BUY_SIGNAL" THEN FALSE
                              ELSE tsmEvent.sellSinceBuy,
                           !.entryAt = M.entryAt]
  /\ LAST_TICK' = M.engine.LAST_TICK
  /\ ORDERS' = M.engine.ORDERS
  /\ orderSeq' = M.engine.orderSeq
  /\ POS' = M.engine.POS
  /\ fills' = M.engine.fills
  /\ quoteCache' = M.paper.quoteCache
  /\ paperSeq' = M.paper.seq
  /\ paperOrders' = M.paper.orders
  /\ paperPositions' = M.paper.positions
  /\ realizedBySymbol' = M.paper.realized
  /\ UNCHANGED << PAPERTRADE, fyersClient, engineEvent, paperEvent,
                  machineVars, ledgerVars, sizingVars, socketVars >>
  /\ Len(M.engine.ORDERS) <= MaxLegacyOrders
  /\ Len(M.paper.orders) <= MaxLegacyOrders
  /\ Len(M.timers) <= MaxLegacyTimers

(* setTimeout(cb, ms) on the queue of M; a handle is the callback and its *)
(* deadline                                                               *)
legacy_setTimeout(M, kind, ms) ==
  [M EXCEPT !.timers = Append(@, [kind |-> kind, due |-> M.now + ms])]

LastTimer(M) == M.timers[Len(M.timers)]

(* The broker calls as the machine meets them.  part_005: outside paper    *)
(* mode placeLimitOrderV3 and cancelOrderV3 throw, and a tick only         *)
(* refreshes the quote cache.  part_008: outside paper mode the calls go   *)
(* to RealFyersClient, which keeps nothing; its order id is "REAL-" and    *)
(* the clock.                                                              *)
isPaper(M) == M.PAPERTRADE

(* the id the next placeLimitOrderV3 returns *)
NextOrderId(M) ==
  IF M.fyersClient = "part_005" THEN M.engine.orderSeq
  ELSE IF isPaper(M) THEN M.paper.seq
  ELSE M.now

legacy_placeLimitOrderV3(M, side, qty, limitPrice) ==
  IF M.fyersClient = "part_005"
  THEN IF ~isPaper(M) THEN [M EXCEPT !.thrown = TRUE]
       ELSE [M EXCEPT !.engine = engine_placeLimitOrderV3(@, LegacySymbol,
                                                          side, qty,
                                                          limitPrice)]
  ELSE IF ~isPaper(M) THEN M
  ELSE [M EXCEPT !.paper = placeLimitOrderV3(@, LegacySymbol, side, qty,
                                             limitPrice)]

legacy_cancelOrderV3(M, orderId) ==
  LET E1 == engine_cancelOrderV3([M.engine EXCEPT !.ok = TRUE], orderId)
      wasPending == \E i \in 1..Len(M.paper.orders) :
                      /\ M.paper.orders[i].orderId = orderId
                      /\ M.paper.orders[i].status = "PENDING"
  IN IF M.fyersClient = "part_005"
     THEN IF ~isPaper(M) THEN [M EXCEPT !.thrown = TRUE]
          ELSE [M EXCEPT !.engine = E1,
                         !.cancelOk = IF E1.ok THEN "OK" ELSE "NOT_PENDING"]
     ELSE IF ~isPaper(M) THEN M
     ELSE [M EXCEPT !.paper = cancelOrderV3(@, orderId),
                    !.cancelOk = IF wasPending THEN "OK" ELSE "NOT_PENDING"]

legacy_onTickFromMarket(M, l) ==
  IF M.fyersClient = "part_005"
  THEN IF isPaper(M)
       THEN [M EXCEPT !.engine = engine_onTickFromMarket(@, LegacySymbol, l)]
       ELSE [M EXCEPT !.engine.LAST_TICK[LegacySymbol] = l]
  ELSE IF isPaper(M)
  THEN [M EXCEPT !.paper = onTickFromMarket(@, LegacySymbol, l)]
  ELSE [M EXCEPT !.paper.quoteCache[LegacySymbol] = l]

(* getQuotesV3([symbol]).d[0].v.lp *)
legacy_getQuotesV3(M) ==
  IF M.fyersClient = "part_005" THEN M.engine.LAST_TICK[LegacySymbol]
  ELSE getQuotesV3(M.paper, LegacySymbol)

(* calculateQuantityForOrderValue, src/server/quantityCalc.ts; Null stands  *)
(* for the Error it throws.  Math.round is floor(x + 1/2).                  *)
calculateQuantityForOrderValue(u, l, targetValue) ==
  LET lot == getLotSize(u)
      numLots == Max(1, (2 * targetValue * UnitsPerRupee + l * lot)
                          \div (2 * l * lot))
  IN IF l <= 0 THEN Null
     ELSE IF lot = Null THEN Null
     ELSE numLots * lot

(* ensureLTP; Null stands for the Error "LTP not found" *)
ensureLTP(M, pref) ==
  LET l == legacy_getQuotesV3(M)
  IN IF pref # Null /\ pref > 0 THEN pref
     ELSE IF l = Null \/ l = 0 THEN Null
     ELSE l

resetSellArming(M) == [M EXCEPT !.sellArmed = FALSE, !.sellArmRefLTP = Null]

cancelOpenEntryIfTracked(M) ==
  LET M1 == legacy_cancelOrderV3(M, M.entryOrderId)
  IN IF M.entryOrderId = Null THEN M
     ELSE IF M1.thrown THEN M1
     ELSE [M1 EXCEPT !.entryOrderId = Null]

clearReentryTimer(M) ==
  LET M1 == IF M.reentryTimer # NoLegacyTimer
            THEN [M EXCEPT !.timers = RemoveFirst(@, M.reentryTimer)]
            ELSE M
  IN [M1 EXCEPT !.reentryTimer = NoLegacyTimer]

clearWindowAndLoop(M) ==
  [clearReentryTimer(M) EXCEPT !.reentryDeadline = Null,
                               !.cancelReentryDueToSell = FALSE,
                               !.rollingActive = FALSE]

startRollingReentry(M) ==
  IF M.cancelReentryDueToSell THEN M
  ELSE IF M.prevSavedLTP = Null THEN M
  ELSE LET M1 == clearReentryTimer(
                   [M EXCEPT !.rollingActive = TRUE,
                             !.reentryDeadline = M.now + WindowMs])
           M2 == legacy_setTimeout(M1, "ROLLING", WindowMs)
       IN [M2 EXCEPT !.reentryTimer = LastTimer(M2)]

stopRollingReentry(M) ==
  IF ~M.rollingActive THEN M
  ELSE [clearReentryTimer([M EXCEPT !.rollingActive = FALSE])
          EXCEPT !.reentryDeadline = Null]

(* the entry-TTL callback armed by enterLong *)
EntryTtl(M) ==
  LET M1 == legacy_cancelOrderV3(M, M.entryOrderId)
      M2 == [M1 EXCEPT !.entryOrderId = Null]
      nowLtp5 == ensureLTP(M2, Null)
      newQty == calculateQuantityForOrderValue(LegacySymbol, nowLtp5,
                                               ORDER_VALUE)
      newLim == roundToTick(nowLtp5 + Half)
      M3 == legacy_placeLimitOrderV3(M2, "BUY", newQty, newLim)
  IN IF M.state # "PENDING_ENTRY" \/ M.entryOrderId = Null THEN M
     ELSE IF M1.thrown THEN M1
     ELSE IF nowLtp5 = Null \/ newQty = Null THEN [M2 EXCEPT !.thrown = TRUE]
     ELSE IF M3.thrown THEN M3
     ELSE [M3 EXCEPT !.entryOrderId = NextOrderId(M2),
                     !.entryAt = M.now]

enterLong(M, l) ==
  LET qty == calculateQuantityForOrderValue(LegacySymbol, l, ORDER_VALUE)
      M1 == [M EXCEPT !.entryRefLTP = l]
      buyLimit == roundToTick(l + Half)
      M2 == legacy_placeLimitOrderV3(M1, "BUY", qty, buyLimit)
      M3 == [M2 EXCEPT !.entryOrderId = NextOrderId(M1),
                       !.state = "PENDING_ENTRY",
                       !.entryAt = M.now]
  IN IF qty = Null THEN [M EXCEPT !.thrown = TRUE]
     ELSE IF M2.thrown THEN M2
     ELSE legacy_setTimeout(M3, "TTL", ENTRY_TTL_MS)

onEntryFilled(M) ==
  IF M.state = "PENDING_ENTRY" THEN [M EXCEPT !.state = "LONG_ACTIVE"] ELSE M

exitLong(M, reason, ltpNow) ==
  LET l == ensureLTP(M, ltpNow)
      qty == calculateQuantityForOrderValue(LegacySymbol, l, ORDER_VALUE)
      sellLimit == roundToTick(l - Half)
      placed == legacy_placeLimitOrderV3(M, "SELL", qty, sellLimit)
      M1 == IF placed.thrown THEN [M EXCEPT !.exitError = TRUE] ELSE placed
      M2 == cancelOpenEntryIfTracked(M1)
      M3 == [resetSellArming(M2) EXCEPT !.entryRefLTP = Null,
                                        !.state = "IDLE"]
  IN IF l = Null \/ qty = Null THEN [M EXCEPT !.thrown = TRUE]
     ELSE IF M2.thrown THEN M2
     ELSE IF reason \in {"ENTRY_REF_DROP_EXIT", "SELL_ARM_DROP_EXIT"}
     THEN startRollingReentry(M3)
     ELSE clearWindowAndLoop(M3)

legacy_onTick(M, l) ==
  IF ~M.exiting /\ M.entryRefLTP # Null /\ l <= M.entryRefLTP - Half
  THEN LET M1 == exitLong([M EXCEPT !.exiting = TRUE],
                          "ENTRY_REF_DROP_EXIT", l)
       IN IF M1.thrown THEN M1
          ELSE [M1 EXCEPT !.entryRefLTP = Null, !.exiting = FALSE]
  ELSE IF /\ M.state = "LONG_ACTIVE"
          /\ M.sellArmed
          /\ M.sellArmRefLTP # Null
          /\ l <= M.sellArmRefLTP - Half
          /\ ~M.exiting
  THEN LET M1 == exitLong([M EXCEPT !.exiting = TRUE],
                          "SELL_ARM_DROP_EXIT", l)
       IN IF M1.thrown THEN M1 ELSE [M1 EXCEPT !.exiting = FALSE]
  ELSE M

legacy_onBuySignal(M, l) ==
  LET M1 == IF M.state = "IDLE" /\ M.rollingActive
            THEN stopRollingReentry(M) ELSE M
      M2 == resetSellArming(
              [M1 EXCEPT !.prevSavedLTP = l,
                         !.reentryDeadline = M1.now + WindowMs,
                         !.cancelReentryDueToSell = FALSE])
      M3 == enterLong(M2, l)
      M4 == legacy_setTimeout(clearReentryTimer(M3), "REENTRY", WindowMs)
  IN IF M1.state # "IDLE" THEN M1
     ELSE IF M3.thrown THEN M3
     ELSE [M4 EXCEPT !.reentryTimer = LastTimer(M4)]

(* onSellSignal leaving re-entry uncancelled *)
legacy_onSellSignal_NoCancel(M) ==
  LET M1 == M
      M2 == cancelOpenEntryIfTracked(M1)
      l == ensureLTP(M1, Null)
  IN IF M1.state = "PENDING_ENTRY"
     THEN IF M2.thrown THEN M2
          ELSE resetSellArming([M2 EXCEPT !.state = "IDLE"])
     ELSE IF M1.state = "LONG_ACTIVE"
     THEN IF l = Null
          THEN [M1 EXCEPT !.sellArmed = TRUE, !.thrown = TRUE]
          ELSE [M1 EXCEPT !.sellArmed = TRUE, !.sellArmRefLTP = l]
     ELSE M1

legacy_onSellSignal(M) ==
  LET M1 == [M EXCEPT !.cancelReentryDueToSell = TRUE]
      M2 == cancelOpenEntryIfTracked(M1)
      l == ensureLTP(M1, Null)
  IN IF M1.state = "PENDING_ENTRY"
     THEN IF M2.thrown THEN M2
          ELSE resetSellArming([M2 EXCEPT !.state = "IDLE"])
     ELSE IF M1.state = "LONG_ACTIVE"
     THEN IF l = Null
          THEN [M1 EXCEPT !.sellArmed = TRUE, !.thrown = TRUE]
          ELSE [M1 EXCEPT !.sellArmed = TRUE, !.sellArmRefLTP = l]
     ELSE M1

onSignal(M, sig, ltpHint) ==
  LET l == ensureLTP(M, ltpHint)
  IN IF l = Null THEN [M EXCEPT !.thrown = TRUE]
     ELSE IF sig = "BUY_SIGNAL" THEN legacy_onBuySignal(M, l)
     ELSE legacy_onSellSignal(M)

onReentryDeadline(M) ==
  LET M1 == [M EXCEPT !.reentryTimer = NoLegacyTimer]
      l == ensureLTP(M1, Null)
      M2 == enterLong(M1, l)
  IN IF M.reentryDeadline = Null \/ M.reentryDeadline = 0 THEN M
     ELSE IF M1.state # "IDLE" THEN M1
     ELSE IF M1.cancelReentryDueToSell THEN M1
     ELSE IF M1.prevSavedLTP = Null THEN M1
     ELSE IF l = Null THEN [M1 EXCEPT !.thrown = TRUE]
     ELSE IF l > M1.prevSavedLTP
     THEN IF M2.thrown THEN M2 ELSE clearWindowAndLoop(M2)
     ELSE M1

(* checkRollingReentry re-entering as soon as the price is back at the *)
(* saved price                                                          *)
checkRollingReentry_AtOrAbove(M) ==
  LET M1 == [M EXCEPT !.reentryTimer = NoLegacyTimer]
      l == ensureLTP(M1, Null)
      M2 == enterLong(M1, l)
  IN IF ~M1.rollingActive THEN M1
     ELSE IF M1.state # "IDLE" THEN stopRollingReentry(M1)
     ELSE IF M1.cancelReentryDueToSell THEN stopRollingReentry(M1)
     ELSE IF M1.prevSavedLTP = Null THEN stopRollingReentry(M1)
     ELSE IF l = Null THEN [M1 EXCEPT !.thrown = TRUE]
     ELSE IF l >= M1.prevSavedLTP
     THEN IF M2.thrown THEN M2
          ELSE [stopRollingReentry(M2) EXCEPT !.prevSavedLTP = l]
     ELSE startRollingReentry(M1)

checkRollingReentry(M) ==
  LET M1 == [M EXCEPT !.reentryTimer = NoLegacyTimer]
      l == ensureLTP(M1, Null)
      M2 == enterLong(M1, l)
  IN IF ~M1.rollingActive THEN M1
     ELSE IF M1.state # "IDLE" THEN stopRollingReentry(M1)
     ELSE IF M1.cancelReentryDueToSell THEN stopRollingReentry(M1)
     ELSE IF M1.prevSavedLTP = Null THEN stopRollingReentry(M1)
     ELSE IF l = Null THEN [M1 EXCEPT !.thrown = TRUE]
     ELSE IF l > M1.prevSavedLTP
     THEN IF M2.thrown THEN M2
          ELSE [stopRollingReentry(M2) EXCEPT !.prevSavedLTP = l]
     ELSE startRollingReentry(M1)

LegacyCallback(M, t) ==
  CASE t.kind = "TTL"     -> EntryTtl(M)
    [] t.kind = "REENTRY" -> onReentryDeadline(M)
    [] t.kind = "ROLLING" -> checkRollingReentry(M)

(* the timer the event loop runs next: the earliest due, the oldest first *)
NextDue(ts) ==
  CHOOSE i \in 1..Len(ts) :
    \A j \in 1..Len(ts) :
      ts[i].due < ts[j].due \/ (ts[i].due = ts[j].due /\ i <= j)

-----------------------------------------------------------------------------
(* Dispatch of a subscribed handler / of an expired timer to its closure *)

Invoke(S, h, tickLtp) ==
  CASE h.kind = "SELL_INPOS" -> SellInPosTick(S, tickLtp)
    [] h.kind = "BUY"        -> BuyWindowTick(S, h, tickLtp)
    [] h.kind = "SELL_INPOS_B" -> SellInPosTick_B(S, tickLtp)
    [] h.kind = "BUY_B"      -> BuyWindowTick_B(S, h, tickLtp)

Callback(S, t) ==
  CASE t.kind = "SELL_INPOS" -> SellInPosTimeout(S)
    [] t.kind = "SELL_FLAT"  -> SellFlatTimeout(S)
    [] t.kind = "BUY"        -> BuyTimeout(S)
    [] t.kind = "SELL_INPOS_B" -> SellTimeout_B(S)
    [] t.kind = "SELL_FLAT_B"  -> SellTimeout_B(S)
    [] t.kind = "BUY_B"      -> BuyTimeout_B(S, t)

(* ingest: update the cache, then deliver to the handlers subscribed when   *)
(* the tick arrived, in subscription order                                  *)
RECURSIVE Deliver(_, _, _)
Deliver(S, hs, tickLtp) ==
  IF hs = << >> THEN S
  ELSE Deliver(Invoke(S, Head(hs), tickLtp), Tail(hs), tickLtp)

ingest(S, tickLtp) ==
  LET S1 == [S EXCEPT !.ltp = tickLtp]
  IN Deliver(S1, S1.handlers, tickLtp)

-----------------------------------------------------------------------------
(* the state after construction, for a machine created on a symbol of       *)
(* underlying u                                                             *)
InitProgram(u) ==
  /\ underlying = u
  /\ thrown = FALSE
  /\ ssa = SymbolMachine_A
  /\ now = 0
  /\ marketOpen \in BOOLEAN
  /\ ltp = Null
  /\ handlers = << >>
  /\ timers = << >>
  /\ state = "IDLE"
  /\ sellWindowTimer = NoTimer
  /\ buyWindowTimer = NoTimer
  /\ sellInPosExitDone = FALSE
  /\ hadPositionOnSell = FALSE
  /\ buyWindowActive = FALSE
  /\ buySilenceUntil = Null
  /\ sellLtpAnchor = Null
  /\ savedBUYLTP = Null
  /\ savedLastBUYLTP = Null
  /\ pendingBuyAfterSell = FALSE
  /\ posQty = 0
  /\ avgPrice = 0
  /\ PAPER_ORDER_ID = 1
  /\ event = "INIT"
  /\ orders = << >>
  /\ started = << >>
  /\ windowSells = 0
  /\ buyWindowEnd = Null
  /\ stopDeadline = Null
  /\ flatSellLoop = FALSE
  /\ windowTimer = NoTimer
  /\ staleFired = FALSE
  /\ quoteCache = [y \in PaperSymbols |-> Null]
  /\ paperSeq = 1
  /\ paperOrders = << >>
  /\ paperPositions = [y \in PaperSymbols |-> [qty |-> 0, avgPrice |-> 0]]
  /\ realizedBySymbol = [y \in PaperSymbols |-> 0]
  /\ paperEvent = "INIT"
  /\ LAST_TICK = [y \in PaperSymbols |-> Null]
  /\ ORDERS = << >>
  /\ orderSeq = 1
  /\ POS = [y \in PaperSymbols |-> getOrInitPos]
  /\ fills = << >>
  /\ engineEvent = [kind |-> "INIT", symbol |-> "NONE", ltp |-> Null,
                    id |-> Null, ok |-> TRUE]
  /\ POSITIONS = [posQty |-> 0, avgPrice |-> 0, realized |-> 0]
  /\ TRADES = << >>
  /\ subscriptions = [y \in PaperSymbols |-> 0]
  /\ connected = FALSE
  /\ tickListeners = << >>
  /\ unsubscribers = << >>
  /\ delivered = << >>
  /\ socketEvent = [kind |-> "INIT", symbol |-> "NONE", ltp |-> Null,
                    handle |-> Null, again |-> FALSE]
  /\ tsm = TradeStateMachine
  /\ tsmNow = 0
  /\ tsmTimers = << >>
  /\ tsmEvent = [kind |-> "INIT", ltp |-> Null, exitError |-> FALSE,
                 cancelOk |-> "NONE", thrown |-> FALSE, sellSinceBuy |-> FALSE,
                 entryAt |-> Null]

Init ==
  /\ InitProgram("NIFTY")
  /\ sizingIn = NoSizing
  /\ sizingOut = Null
  /\ clockIn = NoClock
  /\ clockOut = NoClockOut
  /\ mergeIn = NoMerge
  /\ mergeOut = NoMergeOut
  /\ PAPERTRADE = TRUE
  /\ fyersClient = "part_005"

(* the clock advances, never past a pending timer's deadline *)
Advance ==
  /\ now < MaxTime
  /\ \A i \in 1..Len(timers) : timers[i].due > now
  /\ \E d \in TimeSteps :
       LET target == Min(now + d, MaxTime)
           next   == IF timers = << >> THEN target
                     ELSE Min(target, Head(timers).due)
       IN Commit([Begin("ADVANCE") EXCEPT !.now = next])

(* the event loop runs the callback of the oldest expired timer *)
TimerFire ==
  /\ timers # << >>
  /\ Head(timers).due <= now
  /\ LET t == Head(timers)
     IN Commit(Callback([Begin("TIMER") EXCEPT !.timers = Tail(@),
                                               !.staleFired = t # windowTimer],
                        t))

Tick ==
  \E p \in TickPrices : Commit(ingest(Begin("TICK"), p))

SellSignal ==
  \E p \in SellSigPrices : Commit(handleSellSignal(Begin("SELL_SIGNAL"), p))

BuySignal ==
  \E p \in BuySigPrices :
    Commit(handleBuySignal(Begin("BUY_SIGNAL"), p, Null))

Next ==
  \/ Advance
  \/ TimerFire
  \/ Tick
  \/ SellSignal
  \/ BuySignal

Spec == Init /\ [][Next]_vars

SellSignal_B ==
  \E p \in SellSigPrices : Commit(handleSellSignal_B(Begin("SELL_SIGNAL"), p))

BuySignal_B ==
  \E p \in BuySigPrices, fa \in ForcedAnchors :
    Commit(handleBuySignal_B(Begin("BUY_SIGNAL"), p, fa))

NextB ==
  \/ Advance
  \/ TimerFire
  \/ Tick
  \/ SellSignal_B
  \/ BuySignal_B

(* a machine created on a symbol whose underlying has no lot size *)
InitUnknown ==
  /\ InitProgram("SENSEX")
  /\ sizingIn = NoSizing
  /\ sizingOut = Null
  /\ clockIn = NoClock
  /\ clockOut = NoClockOut
  /\ mergeIn = NoMerge
  /\ mergeOut = NoMergeOut
  /\ PAPERTRADE = TRUE
  /\ fyersClient = "part_005"

SpecUnknown == InitUnknown /\ [][Next]_vars

SpecB == Init /\ [][NextB]_vars

(* The Sell-Start anchor variant of src/server/stateMachine.ts lines 1-441 *)
Begin_A(e) == [Begin(e) EXCEPT !.ssa.restarts = 0, !.ssa.depth = 0]

Advance_A ==
  /\ now < MaxTime
  /\ \A i \in 1..Len(timers) : timers[i].due > now
  /\ \E d \in TimeSteps :
       LET target == Min(now + d, MaxTime)
           next == IF timers = << >> THEN target
                   ELSE Min(target, Head(timers).due)
       IN Commit([Begin_A("ADVANCE_A") EXCEPT !.now = next])

TimerFire_A ==
  /\ timers # << >>
  /\ Head(timers).due <= now
  /\ LET t == Head(timers)
     IN Commit(Callback_A([Begin_A("TIMER_A") EXCEPT !.timers = Tail(@),
                                                    !.staleFired = t # windowTimer],
                          t))

Tick_A ==
  \E p \in TickPrices : Commit(ingest_A(Begin_A("TICK_A"), p))

SellSignal_A ==
  \E p \in SellSigPrices :
    Commit(handleSignal_A(Begin_A("SELL_SIGNAL_A"), "SELL_SIGNAL", p))

BuySignal_A ==
  \E p \in BuySigPrices :
    Commit(handleSignal_A(Begin_A("BUY_SIGNAL_A"), "BUY_SIGNAL", p))

NextA ==
  \/ Advance_A
  \/ TimerFire_A
  \/ Tick_A
  \/ SellSignal_A
  \/ BuySignal_A

SpecA == Init /\ [][NextA]_vars

PaperPlace ==
  \E y \in PaperSymbols, side \in {"BUY", "SELL"}, q \in PaperQtys,
     lim \in PaperLimits :
    CommitPaper(placeLimitOrderV3(CurPaper, y, side, q, lim), "PLACE")

PaperTick ==
  \E y \in PaperSymbols, p \in PaperTicks :
    CommitPaper(onTickFromMarket(CurPaper, y, p), "TICK")

PaperCancel ==
  \E id \in 1..MaxPaperOrders :
    /\ id < paperSeq
    /\ CommitPaper(cancelOrderV3(CurPaper, id), "CANCEL")

NextPaper ==
  \/ PaperPlace
  \/ PaperTick
  \/ PaperCancel

InitPaper == Init /\ marketOpen

SpecPaper == InitPaper /\ [][NextPaper]_vars

-----------------------------------------------------------------------------
(* The tick-cross engine of src/unnamed/part_005 driven through its         *)
(* exported entry points                                                    *)

EnginePlace ==
  \E y \in PaperSymbols, side \in {"BUY", "SELL"}, q \in PaperQtys,
     l \in EngineLimits :
    CommitEngine(engine_placeLimitOrderV3(CurEngine, y, side, q, l),
                 [kind |-> "PLACE", symbol |-> y, ltp |-> Null,
                  id |-> orderSeq, ok |-> TRUE])

EngineTick ==
  \E y \in PaperSymbols, p \in EngineTicks :
    CommitEngine(engine_onTickFromMarket(CurEngine, y, p),
                 [kind |-> "TICK", symbol |-> y, ltp |-> p,
                  id |-> Null, ok |-> TRUE])

EngineCancel ==
  \E id \in 1..(MaxEngineOrders + 1) :
    CommitEngine(engine_cancelOrderV3(CurEngine, id),
                 [kind |-> "CANCEL", symbol |-> "NONE", ltp |-> Null,
                  id |-> id, ok |-> TRUE])

NextEngine ==
  \/ EnginePlace
  \/ EngineTick
  \/ EngineCancel

SpecEngine == InitPaper /\ [][NextEngine]_vars

-----------------------------------------------------------------------------
(* The instant-fill broker of src/server/fyersClient.ts with its trade log, *)
(* driven through placeLimitBuy and placeLimitSell                          *)

LedgerBuy ==
  \E q \in LedgerQtys, p \in LedgerPrices :
    CommitLedger(ledger_placeLimitBuy(CurLedger, q, p))

LedgerSell ==
  \E q \in LedgerQtys, p \in LedgerPrices :
    CommitLedger(ledger_placeLimitSell(CurLedger, q, p))

NextLedger ==
  \/ LedgerBuy
  \/ LedgerSell

SpecLedger == InitPaper /\ [][NextLedger]_vars

-----------------------------------------------------------------------------
(* The DataSocket of src/server/dataSocket.ts driven by its consumers and   *)
(* by the feed                                                              *)

SocketSubscribe ==
  \E y \in PaperSymbols, listener \in BOOLEAN :
    CommitSocket(DataSocket_subscribe(CurSocket, y, listener),
                 [kind |-> "SUBSCRIBE", symbol |-> y, ltp |-> Null,
                  handle |-> Len(unsubscribers) + 1, again |-> FALSE])

(* a consumer invokes the function subscribe returned to it *)
SocketUnsubscribe ==
  \E h \in 1..Len(unsubscribers) :
    /\ unsubscribers[h].calls < MaxUnsubscribeCalls
    /\ LET u == unsubscribers[h]
           W == DataSocket_unsubscribe(CurSocket, u.symbol, u.listener)
       IN CommitSocket([W EXCEPT !.unsubscribers[h].calls = @ + 1],
                       [kind |-> "UNSUBSCRIBE", symbol |-> u.symbol,
                        ltp |-> Null, handle |-> h, again |-> u.calls > 0])

SocketTick ==
  \E y \in PaperSymbols, p \in PaperTicks :
    CommitSocket(injectTick(CurSocket, y, p),
                 [kind |-> "TICK", symbol |-> y, ltp |-> p,
                  handle |-> Null, again |-> FALSE])

NextSocket ==
  \/ SocketSubscribe
  \/ SocketUnsubscribe
  \/ SocketTick

SpecSocket == InitPaper /\ [][NextSocket]_vars

-----------------------------------------------------------------------------
(* The legacy TradeStateMachine of src/stateMachine.ts with the engine of   *)
(* src/unnamed/part_005, driven by signals, ticks, timers and the broker's  *)
(* fill confirmation; PAPERTRADE is set, or not, when the process starts    *)

InitLegacy ==
  /\ InitProgram("NIFTY")
  /\ marketOpen
  /\ sizingIn = NoSizing
  /\ sizingOut = Null
  /\ clockIn = NoClock
  /\ clockOut = NoClockOut
  /\ mergeIn = NoMerge
  /\ mergeOut = NoMergeOut
  /\ PAPERTRADE \in BOOLEAN
  /\ fyersClient = "part_005"

LegacyEvent(kind, l) ==
  [kind |-> kind, ltp |-> l, exitError |-> FALSE, cancelOk |-> "NONE",
   thrown |-> FALSE, sellSinceBuy |-> FALSE, entryAt |-> Null]

(* the clock advances, never past a pending timer's deadline *)
LegacyAdvance ==
  /\ tsmNow < MaxLegacyTime
  /\ \A i \in 1..Len(tsmTimers) : tsmTimers[i].due > tsmNow
  /\ \E d \in LegacyTimeSteps :
       LET target == Min(tsmNow + d, MaxLegacyTime)
           next == IF tsmTimers = << >> THEN target
                   ELSE Min(target, tsmTimers[NextDue(tsmTimers)].due)
       IN CommitLegacy([CurLegacy EXCEPT !.now = next],
                       LegacyEvent("ADVANCE", Null))

(* the event loop runs the callback of an expired timer *)
LegacyTimerFire ==
  /\ tsmTimers # << >>
  /\ tsmTimers[NextDue(tsmTimers)].due <= tsmNow
  /\ LET t == tsmTimers[NextDue(tsmTimers)]
         M == [CurLegacy EXCEPT !.timers = RemoveFirst(@, t)]
     IN CommitLegacy(LegacyCallback(M, t), LegacyEvent(t.kind, Null))

(* a market tick: DataSocket.handleIncomingTick hands it to the listeners, *)
(* here the machine's onTick, and then to the engine's onTickFromMarket    *)
LegacyTick ==
  \E p \in LegacyTicks :
    CommitLegacy(legacy_onTickFromMarket(legacy_onTick(CurLegacy, p), p),
                 LegacyEvent("TICK", p))

LegacyBuySignal ==
  \E p \in LegacySigPrices :
    CommitLegacy(onSignal(CurLegacy, "BUY_SIGNAL", p),
                 LegacyEvent("BUY_SIGNAL", p))

LegacySellSignal ==
  \E p \in LegacySigPrices :
    CommitLegacy(onSignal(CurLegacy, "SELL_SIGNAL", p),
                 LegacyEvent("SELL_SIGNAL", p))

(* the broker confirms the fill of the tracked entry order *)
LegacyEntryFilled ==
  /\ tsm.entryOrderId # Null
  /\ IF fyersClient = "part_005"
     THEN \E i \in 1..Len(ORDERS) :
            ORDERS[i].id = tsm.entryOrderId /\ ORDERS[i].status = "FILLED"
     ELSE \E i \in 1..Len(paperOrders) :
            /\ paperOrders[i].orderId = tsm.entryOrderId
            /\ paperOrders[i].status = "FILLED"
  /\ CommitLegacy(onEntryFilled(CurLegacy), LegacyEvent("FILLED", Null))

NextLegacy ==
  \/ LegacyAdvance
  \/ LegacyTimerFire
  \/ LegacyTick
  \/ LegacyBuySignal
  \/ LegacySellSignal
  \/ LegacyEntryFilled

SpecLegacy == InitLegacy /\ [][NextLegacy]_vars

(* The same machine with src/unnamed/part_008 as "./fyersClient", in paper *)
(* mode: an order stays pending until a tick crosses its limit             *)
InitLegacyPaper ==
  /\ InitProgram("NIFTY")
  /\ marketOpen
  /\ sizingIn = NoSizing
  /\ sizingOut = Null
  /\ clockIn = NoClock
  /\ clockOut = NoClockOut
  /\ mergeIn = NoMerge
  /\ mergeOut = NoMergeOut
  /\ PAPERTRADE = TRUE
  /\ fyersClient = "part_008"

SpecLegacyPaper == InitLegacyPaper /\ [][NextLegacy]_vars

-----------------------------------------------------------------------------
(* computeQtyFromPnLContext applied once to inputs drawn at the start: the  *)
(* symbol's underlying, its open quantity and its last price                *)

InitSizing ==
  /\ InitProgram("NIFTY")
  /\ marketOpen
  /\ sizingIn \in [underlying : Underlyings, posQty : SizingQtys,
                    ltp : SizingLtps]
  /\ sizingOut = Null
  /\ clockIn = NoClock
  /\ clockOut = NoClockOut
  /\ mergeIn = NoMerge
  /\ mergeOut = NoMergeOut
  /\ PAPERTRADE = TRUE
  /\ fyersClient = "part_005"

ApplySizing ==
  /\ sizingOut = Null
  /\ sizingOut' = computeQtyFromPnLContext(sizingIn)
  /\ UNCHANGED << sizingIn, clockIn, clockOut, mergeIn, mergeOut,
                  machineVars, paperVars, engineVars, ledgerVars,
                  socketVars, legacyVars >>

NextSizing == ApplySizing

SpecSizing == InitSizing /\ [][NextSizing]_vars

-----------------------------------------------------------------------------
(* Market hours, src/server/marketHours.ts, with the defaults of the        *)
(* environment (MARKET_DAYS, MARKET_START, MARKET_END unset).  One call     *)
(* reads the IST weekday and time of day from getISTParts, whether today's  *)
(* key is in MARKET_HOLIDAYS, and the two FORCE switches: clockIn.          *)

(* "hh:mm" once the regular expression of parseHHMM has matched *)
HHMM(hh, mm) == [hh |-> hh, mm |-> mm]

DefaultStart == HHMM(9, 15)
DefaultEnd == HHMM(15, 30)

(* the empty string an unset variable gives *)
Unset == HHMM(Null, Null)

(* s is the empty string or matches the pattern, as the defaults do *)
parseHHMM(s, def) ==
  LET t == IF s = Unset THEN def ELSE s
  IN Max(0, Min(23, t.hh)) * 60 + Max(0, Min(59, t.mm))

dayMap ==
  [Mon |-> 1, Tue |-> 2, Wed |-> 3, Thu |-> 4, Fri |-> 5, Sat |-> 6,
   Sun |-> 7]

(* the chunks of MARKET_DAYS, "1-5" by default *)
DefaultMarketDays == << [a |-> 1, b |-> 5] >>

allowedDays(md) ==
  UNION { Min(md[i].a, md[i].b)..Max(md[i].a, md[i].b) : i \in 1..Len(md) }

weekdayOf(c) == IF c.wd \in DOMAIN dayMap THEN dayMap[c.wd] ELSE 0

isMarketOpen(c) ==
  LET startMin == parseHHMM(Unset, DefaultStart)
      endMin == parseHHMM(Unset, DefaultEnd)
      nowMin == c.hh * 60 + c.mm
  IN IF c.forceOpen /\ ~c.forceClosed THEN TRUE
     ELSE IF c.forceClosed /\ ~c.forceOpen THEN FALSE
     ELSE IF weekdayOf(c) \notin allowedDays(DefaultMarketDays) THEN FALSE
     ELSE IF c.holiday THEN FALSE
     ELSE nowMin >= startMin /\ nowMin <= endMin

marketClock(c) ==
  LET startMin == parseHHMM(DefaultStart, DefaultStart)
      endMin == parseHHMM(DefaultEnd, DefaultEnd)
      nowMin == c.hh * 60 + c.mm
      todayHoliday == c.holiday
      withinDays == weekdayOf(c) \in allowedDays(DefaultMarketDays)
      withinWindow == nowMin >= startMin /\ nowMin <= endMin
      open == IF c.forceOpen THEN TRUE
              ELSE IF c.forceClosed THEN FALSE
              ELSE withinDays /\ ~todayHoliday /\ withinWindow
  IN [ weekday |-> c.wd, open |-> open,
       minutesToOpen |->
         IF ~open /\ withinDays /\ ~todayHoliday /\ nowMin < startMin
         THEN startMin - nowMin ELSE Null,
       minutesToClose |->
         IF ~(~open /\ withinDays /\ ~todayHoliday /\ nowMin < startMin)
            /\ open
         THEN Max(0, endMin - nowMin) ELSE Null,
       todayHoliday |-> todayHoliday ]

InitMarket ==
  /\ InitProgram("NIFTY")
  /\ marketOpen
  /\ sizingIn = NoSizing
  /\ sizingOut = Null
  /\ clockIn \in [wd : ClockWeekdays, holiday : BOOLEAN,
                  hh : ClockHours, mm : ClockMinutes,
                  forceOpen : BOOLEAN, forceClosed : BOOLEAN]
  /\ clockOut = NoClockOut
  /\ mergeIn = NoMerge
  /\ mergeOut = NoMergeOut
  /\ PAPERTRADE = TRUE
  /\ fyersClient = "part_005"

(* both functions are called at the same instant *)
ApplyClock ==
  /\ ~clockOut.called
  /\ clockOut' = [called |-> TRUE, isMarketOpen |-> isMarketOpen(clockIn),
                  clock |-> marketClock(clockIn)]
  /\ UNCHANGED << sizingIn, sizingOut, clockIn, mergeIn, mergeOut,
                  machineVars, paperVars, engineVars, ledgerVars,
                  socketVars, legacyVars >>

NextMarket == ApplyClock

SpecMarket == InitMarket /\ [][NextMarket]_vars

-----------------------------------------------------------------------------
(* mergeTicksAndSignals, src/sanity_test.ts.  A Date is its time value;    *)
(* the key `${symbol}|${time.toISOString()}` is the pair of symbol and     *)
(* time, which it determines.                                              *)

key(s, d) == << s, d >>

(* the list sigMap holds under k after the loop over signals *)
sigMapGet(signals, k) ==
  SelectSeq(signals, LAMBDA s : key(s.symbol, s.time) = k)

(* the ticks pushed for tick t: one per signal of its key, in order, or t *)
TicksFor(t, list) ==
  IF list # << >>
  THEN [i \in 1..Len(list) |-> [t EXCEPT !.signal = list[i].signal]]
  ELSE << t >>

RECURSIVE mergeFrom(_, _, _)
mergeFrom(historyTicks, signals, i) ==
  IF i > Len(historyTicks) THEN << >>
  ELSE LET t == historyTicks[i]
       IN TicksFor(t, sigMapGet(signals, key(t.symbol, t.time)))
            \o mergeFrom(historyTicks, signals, i + 1)

mergeTicksAndSignals(historyTicks, signals) ==
  mergeFrom(historyTicks, signals, 1)

MergeTickValues ==
  [time : MergeTimes, symbol : MergeSymbols, ltp : {DefaultPx},
   signal : {""}]

MergeSignalValues ==
  [time : MergeTimes, symbol : MergeSymbols, signal : {"BUY", "SELL"}]

SeqsUpTo(V, n) == UNION { [1..k -> V] : k \in 0..n }

InitMerge ==
  /\ InitProgram("NIFTY")
  /\ marketOpen
  /\ sizingIn = NoSizing
  /\ sizingOut = Null
  /\ clockIn = NoClock
  /\ clockOut = NoClockOut
  /\ mergeIn \in [historyTicks : SeqsUpTo(MergeTickValues, MaxMergeTicks),
                  signals : SeqsUpTo(MergeSignalValues, MaxMergeSignals)]
  /\ mergeOut = NoMergeOut
  /\ PAPERTRADE = TRUE
  /\ fyersClient = "part_005"

ApplyMerge ==
  /\ ~mergeOut.called
  /\ mergeOut' = [called |-> TRUE,
                  out |-> mergeTicksAndSignals(mergeIn.historyTicks,
                                               mergeIn.signals)]
  /\ UNCHANGED << sizingIn, sizingOut, clockIn, clockOut, mergeIn,
                  machineVars, paperVars, engineVars, ledgerVars,
                  socketVars, legacyVars >>

NextMerge == ApplyMerge

SpecMerge == InitMerge /\ [][NextMerge]_vars

-----------------------------------------------------------------------------
(* Properties of the three-state SymbolMachine (Spec) *)

Range(seq) == {seq[i] : i \in 1..Len(seq)}

SellOrders == {o \in Range(orders) : o.side = "SELL"}

(* C1: every SELL order the machine places (SELL-window exit, BUY-window    *)
(* stop-out) has quantity equal to getOpenQty(sym) read at placement time,  *)
(* and is placed only when that quantity is > 0.                            *)
C1_NoFlipExits ==
  \A o \in SellOrders : o.qty = o.openQty /\ o.qty > 0

(* a stop-out SELL placed by a machine that has been through earlier windows *)
C1_Witness ==
  /\ \E o \in SellOrders : o.tag = "BUY_WINDOW_STOP_OUT"
  /\ Len(handlers) > 1

(* C2: after every event the position satisfies posQty >= 0, and           *)
(* posQty = 0 implies avgPrice = 0.                                         *)
C2_SizeInvariant ==
  /\ posQty >= 0
  /\ posQty = 0 => avgPrice = 0

(* a tick whose exit SELL flattened a long position *)
C2_Witness ==
  /\ event = "TICK"
  /\ SellOrders # {}
  /\ posQty = 0

(* C3: within a single window the tick-driven rules produce at most one     *)
(* SELL order.                                                              *)
C3_OneExitPerWindow == windowSells <= 1

(* a later tick of a SELL window whose exit has fired, with a position open *)
(* again, places nothing                                                    *)
C3_Witness ==
  /\ windowSells = 1
  /\ state = "IN_SELL_WINDOW"
  /\ sellInPosExitDone
  /\ event = "TICK"
  /\ orders = << >>
  /\ posQty > 0

(* C4: after a stop-out in a BUY window of deadline D, and with no SELL     *)
(* signal in between, a BUY signal arriving before D is ignored: no order,  *)
(* no anchor change, no state change.                                       *)
C4_SilencedUntilDeadline ==
  [][ (event' = "BUY_SIGNAL" /\ stopDeadline # Null /\ now < stopDeadline)
        => /\ orders' = << >>
           /\ state' = state
           /\ savedBUYLTP' = savedBUYLTP
           /\ savedLastBUYLTP' = savedLastBUYLTP ]_vars

(* C5: savedBUYLTP does not change between the start of a BUY window and    *)
(* the end of that window; no event received while the window is running,   *)
(* a BUY signal included, alters it.                                        *)
C5_AnchorFixedInWindow ==
  [][ (state = "IN_BUY_WINDOW" /\ buyWindowActive /\ "BUY" \notin Range(started'))
        => savedBUYLTP' = savedBUYLTP ]_vars

(* C6: whenever the machine state is IDLE the position is flat.             *)
C6_IdleIsFlat == state = "IDLE" => posQty = 0

(* C7: whenever the machine is in IN_BUY_WINDOW or IN_SELL_WINDOW exactly   *)
(* one window-expiry timer is outstanding.                                  *)
C7_OneTimerPerWindow == state # "IDLE" => Len(timers) = 1

(* C9: at any time at most one tick handler registered by the machine is    *)
(* subscribed for its symbol.                                               *)
C9_OneHandler == Len(handlers) <= 1

(* C10: after a SELL signal received while flat, while no SELL-window       *)
(* trigger fires and no further signal arrives, the machine stays in        *)
(* IN_SELL_WINDOW: every expiry starts a new SELL window.                   *)
C10_FlatSellLoops ==
  [][ (flatSellLoop /\ flatSellLoop' /\ state = "IN_SELL_WINDOW"
       /\ event' \in {"TIMER", "TICK", "ADVANCE"})
        => state' = "IN_SELL_WINDOW" ]_vars

(* C11: when a SELL window started with an open position reaches its 60 s  *)
(* expiry, the machine starts a new SELL window instead of returning to     *)
(* IDLE.                                                                    *)
C11_InPosSellRestarts ==
  [][ (/\ event' = "TIMER"
       /\ timers # << >>
       /\ Head(timers).kind = "SELL_INPOS"
       /\ Head(timers) = windowTimer
       /\ state = "IN_SELL_WINDOW")
        => state' = "IN_SELL_WINDOW" ]_vars

(* C12: in a SELL window entered while flat the breakout trigger is         *)
(* evaluated on every tick: a tick with price > round(sellLtpAnchor + 0.5)  *)
(* ends the SELL window and opens a BUY window at that tick.                *)
C12_FlatBreakoutPerTick ==
  [][ (/\ event' = "TICK"
       /\ state = "IN_SELL_WINDOW"
       /\ flatSellLoop
       /\ posQty = 0
       /\ ltp' > roundPrice(sellLtpAnchor + Half))
        => state' = "IN_BUY_WINDOW" ]_vars

BreakoutOrders == {o \in Range(orders) : o.tag = "SELL_FLAT_BREAKOUT"}

(* C13: when the flat-SELL breakout fires, savedBUYLTP is                  *)
(* round(sellLtpAnchor + 1.0), exactly one BUY is placed, at                *)
(* round(savedBUYLTP + 0.5), no SELL-window timer remains pending and the   *)
(* event ends in IN_BUY_WINDOW.                                             *)
C13_BreakoutFlip ==
  BreakoutOrders # {}
    => /\ Len(orders) = 1
       /\ orders[1].side = "BUY"
       /\ savedBUYLTP = roundPrice(sellLtpAnchor + 2 * Half)
       /\ orders[1].price = roundPrice(savedBUYLTP + Half)
       /\ \A i \in 1..Len(timers) :
            timers[i].kind \notin {"SELL_FLAT", "SELL_INPOS"}
       /\ sellWindowTimer = NoTimer
       /\ state = "IN_BUY_WINDOW"

(* a breakout flip at the restart of a flat SELL window, and one on a SELL  *)
(* signal                                                                   *)
C13_Witness ==
  /\ BreakoutOrders # {}
  /\ event = "TIMER"
  /\ Len(handlers) > 1

(* C14: when the flat-SELL discount re-entry fires, savedBUYLTP equals the  *)
(* anchor the price was compared against and the entry BUY is placed at     *)
(* that anchor + 0.5, independently of the triggering price.                *)
C14_DiscountAnchor ==
  [][ (\E i \in 1..Len(orders') :
         orders'[i].tag = "SELL_FLAT_REENTRY_DISCOUNT")
        => /\ savedBUYLTP' = savedLastBUYLTP
           /\ orders'[1].price = roundPrice(savedLastBUYLTP + Half) ]_vars

(* C16: after a BUY signal at price A accepted from IDLE, the first tick    *)
(* with price > A inside the window produces a BUY at round(tick + 0.5)     *)
(* tagged BUY_WINDOW_BREAKOUT_REENTER and a fresh BUY window with anchor A  *)
(* expiring 60 s after that tick.                                           *)
C16_BreakoutReenter ==
  [][ (/\ marketOpen
       /\ event = "BUY_SIGNAL"
       /\ started = << "BUY" >>
       /\ state = "IN_BUY_WINDOW"
       /\ buyWindowActive
       /\ ltp <= savedBUYLTP
       /\ event' = "TICK"
       /\ ltp' > savedBUYLTP)
        => /\ \E i \in 1..Len(orders') :
                /\ orders'[i].tag = "BUY_WINDOW_BREAKOUT_REENTER"
                /\ orders'[i].price = roundPrice(ltp' + Half)
           /\ started' = << "BUY" >>
           /\ savedBUYLTP' = savedBUYLTP
           /\ buyWindowEnd' = now + WindowMs ]_vars

(* C19: while the market-hours gate reports closed, a BUY or SELL signal    *)
(* submitted through any exported entry point places no order and changes   *)
(* no machine state or anchor.                                              *)
C19_ClosedMarketIgnores ==
  [][ (~marketOpen /\ event' \in {"BUY_SIGNAL", "SELL_SIGNAL"})
        => /\ orders' = << >>
           /\ state' = state
           /\ posQty' = posQty
           /\ savedBUYLTP' = savedBUYLTP
           /\ savedLastBUYLTP' = savedLastBUYLTP
           /\ sellLtpAnchor' = sellLtpAnchor
           /\ timers' = timers ]_vars

-----------------------------------------------------------------------------
(* Properties of the BUY-timeout re-entry variant (SpecB) *)

(* C8: the expiry callback of a window that has been superseded by a newer  *)
(* window is a no-op: it neither changes the machine state nor disables     *)
(* the current window's tick rules.                                         *)
C8_SupersededTimerNoOp ==
  [][ staleFired' => (state' = state /\ buyWindowActive' = buyWindowActive) ]_vars

(* C15: a BUY signal received while a window is already running places its  *)
(* entry BUY but leaves the running window intact: its deadline and expiry  *)
(* timer are not reset and no additional window is started.                 *)
C15_RunningWindowIntact ==
  [][ (/\ marketOpen
       /\ state = "IN_BUY_WINDOW"
       /\ buyWindowActive
       /\ event' = "BUY_SIGNAL")
        => /\ started' = << >>
           /\ timers' = timers
           /\ buyWindowEnd' = buyWindowEnd ]_vars

(* C17: when the deadline of a BUY window passes, a window that ended early *)
(* by stop-out included, and the position is flat with last price > A, the  *)
(* machine places a BUY and opens a new BUY window: time does not pass the  *)
(* deadline of a stopped-out window, flat and with last price > A, without  *)
(* the expiry rule having run.                                              *)
C17_DeadlineAfterStopOut ==
  [][ ~(/\ stopDeadline # Null
        /\ state = "IDLE"
        /\ posQty = 0
        /\ ltp > savedBUYLTP
        /\ event = "ADVANCE"
        /\ now = stopDeadline
        /\ event' = "ADVANCE"
        /\ now' > stopDeadline) ]_vars

BuySignalOrders ==
  SelectSeq(orders, LAMBDA o : o.tag \in {"BUY_SIGNAL_PREWINDOW",
                                           "BUY_SIGNAL_FORCED_ANCHOR"})

(* C18: each accepted BUY signal produces exactly one BUY order, tagged     *)
(* BUY_SIGNAL_FORCED_ANCHOR when a forced anchor is supplied and            *)
(* BUY_SIGNAL_PREWINDOW otherwise.                                          *)
C18_OneOrderPerBuySignal ==
  event = "BUY_SIGNAL" => Len(BuySignalOrders) <= 1

-----------------------------------------------------------------------------
(* Properties of the pending-order PaperBroker (SpecPaper) *)

Crosses(side, price, limit) ==
  \/ (side = "BUY" /\ price <= limit)
  \/ (side = "SELL" /\ price >= limit)

(* C20: when a limit order is placed while a cached price for the symbol    *)
(* exists and crosses the limit, the order is FILLED immediately at its     *)
(* limit price; otherwise it stays PENDING.                                 *)
C20_ImmediateFill ==
  [][ paperEvent' = "PLACE"
        => LET o == paperOrders'[Len(paperOrders')]
               c == quoteCache[o.symbol]
           IN IF c # Null /\ Crosses(o.side, c, o.limitPrice)
              THEN o.status = "FILLED" /\ o.filledPrice = o.limitPrice
              ELSE o.status = "PENDING" ]_vars

-----------------------------------------------------------------------------
(* Claims checked on SpecEngine *)

ByOrderId(id) == CHOOSE i \in 1..Len(ORDERS) : ORDERS[i].id = id

(* the positions, in ORDERS, of the orders a tick of engineEvent' fills *)
CrossedByTick(e) ==
  { i \in 1..Len(ORDERS) :
      /\ ORDERS[i].symbol = e.symbol
      /\ ORDERS[i].status = "PENDING"
      /\ IF ORDERS[i].side = "BUY" THEN e.ltp <= ORDERS[i].limitPrice
         ELSE e.ltp >= ORDERS[i].limitPrice }

(* C21: on a tick for a symbol exactly the pending orders of that symbol    *)
(* whose limit the tick price crosses (BUY: price <= limit, SELL: price >=  *)
(* limit) become FILLED, each at its own limit price and in placement       *)
(* order; every other order is left as it was.                              *)
C21_TickFillsCrossing ==
  [][engineEvent'.kind = "TICK" =>
       /\ Len(ORDERS') = Len(ORDERS)
       /\ \A i \in 1..Len(ORDERS) :
            ORDERS'[i] = IF i \in CrossedByTick(engineEvent')
                         THEN [ORDERS[i] EXCEPT !.status = "FILLED"]
                         ELSE ORDERS[i]
       /\ Len(fills') = Cardinality(CrossedByTick(engineEvent'))
       /\ \A k \in 1..Len(fills') :
            /\ ByOrderId(fills'[k].id) \in CrossedByTick(engineEvent')
            /\ fills'[k].price = ORDERS[ByOrderId(fills'[k].id)].limitPrice
            /\ \A j \in 1..(k - 1) :
                 ByOrderId(fills'[j].id) < ByOrderId(fills'[k].id)
       /\ \A y \in PaperSymbols :
            y # engineEvent'.symbol => POS'[y] = POS[y]]_vars

(* a tick below the limit filled one order at its limit and left another    *)
(* pending order of the same symbol, not crossed, alone                     *)
C21_Witness ==
  /\ engineEvent.kind = "TICK"
  /\ Len(fills) = 1
  /\ fills[1].price > engineEvent.ltp
  /\ \E i \in 1..Len(ORDERS) :
       ORDERS[i].symbol = engineEvent.symbol /\ ORDERS[i].status = "PENDING"

(* C22: the status of an order only moves PENDING -> FILLED or PENDING ->   *)
(* CANCELLED, and cancelling an order that is unknown or no longer pending  *)
(* answers not-pending and changes no order and no position.                *)
C22_StatusOneWay ==
  [][/\ Len(ORDERS') >= Len(ORDERS)
     /\ \A i \in 1..Len(ORDERS) :
          \/ ORDERS'[i] = ORDERS[i]
          \/ /\ ORDERS[i].status = "PENDING"
             /\ ORDERS'[i].status \in {"FILLED", "CANCELLED"}
             /\ ORDERS'[i] = [ORDERS[i] EXCEPT !.status = ORDERS'[i].status]
     /\ (/\ engineEvent'.kind = "CANCEL"
         /\ ~(\E i \in 1..Len(ORDERS) :
                /\ ORDERS[i].id = engineEvent'.id
                /\ ORDERS[i].status = "PENDING"))
          => (~engineEvent'.ok /\ ORDERS' = ORDERS /\ POS' = POS)
     /\ (/\ engineEvent'.kind = "CANCEL"
         /\ \E i \in 1..Len(ORDERS) :
              /\ ORDERS[i].id = engineEvent'.id
              /\ ORDERS[i].status = "PENDING")
          => (engineEvent'.ok /\ POS' = POS)]_vars

(* the cancel of an order already filled answered not-pending *)
C22_Witness ==
  /\ engineEvent.kind = "CANCEL"
  /\ ~engineEvent.ok
  /\ \E i \in 1..Len(ORDERS) :
       ORDERS[i].id = engineEvent.id /\ ORDERS[i].status = "FILLED"

(* C23: in the tick-cross engine every position with posQty = 0 has        *)
(* avgPrice = 0.                                                            *)
C23_FlatHasZeroAverage ==
  \A y \in PaperSymbols : POS[y].posQty = 0 => POS[y].avgPrice = 0

-----------------------------------------------------------------------------
(* Claims checked on SpecLedger *)

(* C24: after any sequence of paper BUY and SELL fills the realized values  *)
(* of the trade-log entries add up to the reported grossRealized, and the   *)
(* brokerage values of the entries add up to the reported brokerage.        *)
C24_TradeLogAddsUp ==
  /\ SumRealized(TRADES) = getPnL(CurLedger).grossRealized
  /\ SumBrokerage(TRADES) = getPnL(CurLedger).brokerage

-----------------------------------------------------------------------------
(* Claims checked on SpecSizing *)

(* n lots is what the capital buys at price px: the largest n with          *)
(* n * px * lot <= capital, and 1 when even one lot costs more              *)
IsLotsFor(n, px, lot) ==
  /\ n >= 1
  /\ (n = 1 \/ n * px * lot <= CAPITAL * UnitsPerRupee)
  /\ (n + 1) * px * lot > CAPITAL * UnitsPerRupee

-----------------------------------------------------------------------------
(* Claims checked on SpecSocket *)

(* C26: when a tick is ingested the last-price cache holds the price of     *)
(* that tick before any handler is invoked: a handler that reads the last   *)
(* price during delivery reads the price of the tick being delivered.       *)
C26_CacheBeforeDelivery ==
  \A k \in 1..Len(delivered) : delivered[k].read = delivered[k].ltp

(* C27: invoking the unsubscribe function a second time leaves the socket   *)
(* as the first invocation left it; it takes nothing from the count held    *)
(* for the other subscribers of the symbol.                                 *)
C27_UnsubscribeIdempotent ==
  [][(socketEvent'.kind = "UNSUBSCRIBE" /\ socketEvent'.again) =>
       /\ subscriptions' = subscriptions
       /\ tickListeners' = tickListeners]_vars

-----------------------------------------------------------------------------
(* Claims checked on SpecLegacy *)

(* C28: in the legacy TradeStateMachine, when placing the exit SELL fails   *)
(* the machine stays in its state: it does not move to IDLE and keeps its   *)
(* entry reference and its SELL arming.                                     *)
C28_FailedExitKeepsState ==
  [][tsmEvent'.exitError =>
       /\ tsm'.state = tsm.state
       /\ tsm'.entryRefLTP = tsm.entryRefLTP
       /\ tsm'.sellArmed = tsm.sellArmed
       /\ tsm'.sellArmRefLTP = tsm.sellArmRefLTP]_vars

(* C29: when the entry TTL fires and the tracked entry order is no longer   *)
(* pending at the broker (the cancel answers not-pending), the machine      *)
(* places no second entry BUY.                                              *)
C29_NoSecondEntryAfterFill ==
  [][(tsmEvent'.kind = "TTL" /\ tsmEvent'.cancelOk = "NOT_PENDING") =>
       ORDERS' = ORDERS]_vars

-----------------------------------------------------------------------------
(* Claims checked on SpecUnknown *)

(* C30: if sizing fails for a BUY signal because the symbol has no lot size, *)
(* the error goes to the caller with no state change: no order is placed,   *)
(* and the state, savedBUYLTP, savedLastBUYLTP and pendingBuyAfterSell are  *)
(* as before the signal.                                                    *)
C30_SizingFailureChangesNothing ==
  [][(event' = "BUY_SIGNAL" /\ thrown') =>
       /\ orders' = << >>
       /\ state' = state
       /\ savedBUYLTP' = savedBUYLTP
       /\ savedLastBUYLTP' = savedLastBUYLTP
       /\ pendingBuyAfterSell' = pendingBuyAfterSell]_vars

-----------------------------------------------------------------------------
(* Claims on the time after a BUY-window stop-out, checked on Spec *)

(* C31: after a BUY-window stop-out the machine places no BUY order before  *)
(* the stopped-out window's deadline D when only ticks and SELL signals     *)
(* arrive: a SELL signal received while flat before D triggers no BUY.      *)
C31_NoBuyOnSellBeforeDeadline ==
  [][ (/\ event' = "SELL_SIGNAL"
       /\ stopDeadline # Null
       /\ now < stopDeadline
       /\ posQty = 0)
        => \A o \in Range(orders') : o.side # "BUY" ]_vars

(* C32: with the instant-fill paper broker, whenever a BUY window is active *)
(* (state IN_BUY_WINDOW with buyWindowActive set) the open quantity is      *)
(* > 0: the machine is never flat inside an active BUY window.              *)
C32_NeverFlatInBuyWindow ==
  (state = "IN_BUY_WINDOW" /\ buyWindowActive) => posQty > 0

C32_Witness ==
  /\ state = "IN_BUY_WINDOW"
  /\ buyWindowActive
  /\ event = "TICK"
  /\ savedBUYLTP # Null
  /\ ltp > savedBUYLTP
  /\ orders = << >>
  /\ posQty > 0

-----------------------------------------------------------------------------
(* Claims on the legacy TradeStateMachine, checked on SpecLegacy *)

ReentryTimers(ts) ==
  {i \in 1..Len(ts) : ts[i].kind \in {"REENTRY", "ROLLING"}}

(* exactly one re-entry timer is pending: the rolling check, 60 s after t *)
OneRollingTimer(ts, t) ==
  /\ Cardinality(ReentryTimers(ts)) = 1
  /\ \A i \in ReentryTimers(ts) :
       ts[i] = [kind |-> "ROLLING", due |-> t + WindowMs]

(* a tick made the machine place its drop exit; no SELL signal has *)
(* cancelled re-entry                                              *)
DropExitRuns ==
  /\ tsmEvent'.kind = "TICK"
  /\ Len(ORDERS') = Len(ORDERS) + 1
  /\ ~tsm.cancelReentryDueToSell
  /\ tsm.prevSavedLTP # Null

(* a rolling check runs with the loop live *)
RollingCheckRuns ==
  /\ tsmEvent'.kind = "ROLLING"
  /\ tsm.rollingActive
  /\ ~tsm.cancelReentryDueToSell

C34_SellCancelsReentry ==
  [][ (tsmEvent.sellSinceBuy /\ tsmEvent'.kind \in {"REENTRY", "ROLLING"})
        => ORDERS' = ORDERS ]_vars

(* a rolling check ran after a SELL signal with the price above the saved *)
(* price, and the machine is still IDLE                                   *)
C34_Witness ==
  /\ PAPERTRADE
  /\ tsmEvent.kind = "ROLLING"
  /\ tsmEvent.sellSinceBuy
  /\ tsm.prevSavedLTP # Null
  /\ LAST_TICK[LegacySymbol] > tsm.prevSavedLTP
  /\ tsm.state = "IDLE"

(* C35: in the legacy TradeStateMachine an entry-TTL timer cancels only the *)
(* entry order it was armed for: the order a TTL callback cancels has been  *)
(* pending for ENTRY_TTL_MS, never an order a later BUY signal has placed   *)
(* less than ENTRY_TTL_MS ago.                                              *)
C35_TtlCancelsOwnEntry ==
  [][ (tsmEvent'.kind = "TTL" /\ tsmEvent'.cancelOk = "OK")
        => tsmNow >= tsmEvent.entryAt + ENTRY_TTL_MS ]_vars


(* C36: with src/unnamed/part_008 as the broker of the legacy machine, the *)
(* paper position of the symbol is never negative, and a SELL order is     *)
(* placed only while a long position is open                               *)
C36_LongOnly ==
  [][ /\ paperPositions'[LegacySymbol].qty >= 0
      /\ (/\ Len(paperOrders') > Len(paperOrders)
          /\ paperOrders'[Len(paperOrders')].side = "SELL")
           => paperPositions[LegacySymbol].qty > 0 ]_vars


(* C37: in the Sell-Start anchor variant one tick restarts the BUY window *)
(* at most once and registers at most one new tick handler               *)
C37_OneRestartPerTick ==
  [][ event' = "TICK_A"
        => /\ ssa'.restarts <= 1
           /\ Len(handlers') <= Len(handlers) + 1 ]_vars


(* C38: isMarketOpen() and marketClock().open, called at the same instant *)
(* under the same environment, return the same value                      *)
C38_SameAnswer ==
  clockOut.called => clockOut.isMarketOpen = clockOut.clock.open

(* C39: once the unsubscribe function subscribe returned for a listener   *)
(* has been called, no later tick is delivered to that listener           *)
C39_UnsubscribedIsSilent ==
  \A k \in 1..Len(delivered) :
    \A h \in 1..Len(unsubscribers) :
      unsubscribers[h].listener = delivered[k].listener
        => unsubscribers[h].calls = 0

(* C40: every input signal is carried by a tick of the merged stream: a   *)
(* tick of the signal's symbol and time whose signal is the signal's      *)
C40_NoSignalLost ==
  mergeOut.called =>
    \A i \in 1..Len(mergeIn.signals) :
      \E j \in 1..Len(mergeOut.out) :
        /\ mergeOut.out[j].symbol = mergeIn.signals[i].symbol
        /\ mergeOut.out[j].time = mergeIn.signals[i].time
        /\ mergeOut.out[j].signal = mergeIn.signals[i].signal

====
